---- MODULE Spec2Model ----
\* wallpy: the schedule resolution engine (src/src/wallpy/schedule.py).
\*
\* Time is counted in seconds.  A time of day is a number in 0..86399, a date is
\* a day number (day 0 is a Monday) and a datetime is date * 86400 + time of day.
\* Text is a sequence of one-character strings, so that lower-casing is computed.
EXTENDS Integers, Sequences, FiniteSets, TLC

VARIABLES
    now,        \* the wall clock read by datetime.now()
    sched,      \* the Schedule handed to the manager (never mutated)
    calc,       \* SolarTimeCalculator: [cache, error_cache]
    log,        \* the causes the calculator's logger has warned about, in order
    failures,   \* history: the causes of every failed solar computation so far
    seen,       \* history: the direct resolve_time calls made with a location,
                \* as cache key -> [val, ok] of the first such call
    ncalls,     \* number of direct calculator calls made so far
    last,       \* the last call: its arguments and what it returned
    messages    \* ValidationResult.messages of the result under construction

vars == <<now, sched, calc, log, failures, seen, ncalls, last, messages>>

\* ---------------------------------------------------------------- bounds
MaxCalls == 3
MaxDay == 1
MaxMessages == 3

\* ------------------------------------------------------------ time values
DaySeconds == 24 * 3600
HM(h, m) == h * 3600 + m * 60
Combine(d, t) == d * DaySeconds + t
DateOf(dt) == dt \div DaySeconds
TimeOf(dt) == dt % DaySeconds
Timedelta(days, minutes) == days * DaySeconds + minutes * 60

\* Bind(v, F) is F(v) with v evaluated once (an assignment to a local variable).
Bind(v, F(_)) == CHOOSE y \in {F(x) : x \in {v}} : TRUE

\* ------------------------------------------------------------------- text
UpperChars == <<"A","B","C","D","E","F","G","H","I","J","K","L","M",
                "N","O","P","Q","R","S","T","U","V","W","X","Y","Z">>
LowerChars == <<"a","b","c","d","e","f","g","h","i","j","k","l","m",
                "n","o","p","q","r","s","t","u","v","w","x","y","z">>
LowerOf == [c \in {UpperChars[i] : i \in DOMAIN UpperChars} |->
               LowerChars[CHOOSE i \in DOMAIN UpperChars : UpperChars[i] = c]]
LowerChar(c) == IF c \in DOMAIN LowerOf THEN LowerOf[c] ELSE c
Lower(s) == [i \in DOMAIN s |-> LowerChar(s[i])]
UpperOf == [c \in {LowerChars[i] : i \in DOMAIN LowerChars} |->
               UpperChars[CHOOSE i \in DOMAIN LowerChars : LowerChars[i] = c]]
UpperChar(c) == IF c \in DOMAIN UpperOf THEN UpperOf[c] ELSE c
Upper(s) == [i \in DOMAIN s |-> UpperChar(s[i])]
Capitalize(s) == [i \in DOMAIN s |-> IF i = 1 THEN UpperChar(s[i]) ELSE s[i]]

midnight == <<"m","i","d","n","i","g","h","t">>
dawn == <<"d","a","w","n">>
sunrise == <<"s","u","n","r","i","s","e">>
noon == <<"n","o","o","n">>
sunset == <<"s","u","n","s","e","t">>
dusk == <<"d","u","s","k">>
SUNRISE_upper == <<"S","U","N","R","I","S","E">>
Dawn_mixed == <<"D","a","w","n">>
invalid_event == <<"i","n","v","a","l","i","d","_","e","v","e","n","t">>

\* ------------------------------------------------------- SOLAR_FALLBACKS
SOLAR_FALLBACKS ==
    (midnight :> HM(0, 0)) @@ (dawn :> HM(5, 0)) @@ (sunrise :> HM(6, 30)) @@
    (noon :> HM(12, 0)) @@ (sunset :> HM(18, 30)) @@ (dusk :> HM(19, 30))
ACCEPTED_SOLAR_EVENTS == DOMAIN SOLAR_FALLBACKS

\* A call's outcome: a returned value, or an exception raised to the caller.
Returned(v) == [exc |-> "", val |-> v]
Raised(e) == [exc |-> e, val |-> 0]

\* ------------------------------------------------------------- locations
NoLocation == [kind |-> "None"]
Location(lat, lon, tz, name, region) ==
    [kind |-> "Location", latitude |-> lat, longitude |-> lon, timezone |-> tz,
     name |-> name, region |-> region]
LocationDict(items) == [kind |-> "dict", items |-> items]

DictGet(items, key, default) == IF key \in DOMAIN items THEN items[key] ELSE default

convert_location(location_data) ==
    CASE location_data.kind = "None" -> NoLocation
      [] location_data.kind = "Location" -> location_data
      [] location_data.kind = "dict" ->
            Location(DictGet(location_data.items, "latitude", 0),
                     DictGet(location_data.items, "longitude", 0),
                     DictGet(location_data.items, "timezone", "UTC"),
                     DictGet(location_data.items, "name", "location"),
                     DictGet(location_data.items, "region", "region"))
      [] OTHER -> NoLocation

Good == Location(40, -74, "UTC", "location", "region")
GoodDict == LocationDict(("latitude" :> 40) @@ ("longitude" :> -74))
BadTz == Location(40, -74, "Mars/Phobos", "location", "region")
PolarN == Location(70, 20, "UTC", "north", "region")
PolarS == Location(-70, 20, "UTC", "south", "region")

\* ---------------------------------------------- the astral library's sun()
\* sun.sun(observer, date, tzinfo) computes dawn, sunrise, noon, sunset and dusk
\* together.  It fails for an unknown time zone, and beyond the polar circles
\* when an event does not happen on that day; elsewhere the times move from one
\* date to the next.
KnownTimezones == {"UTC", "Asia/Kolkata"}
Drift(d) == 1800 * (IF d < 0 THEN 0 ELSE IF d > 4 THEN 4 ELSE d)
SunTimes ==
    [d \in -1 .. 5 |->
        (dawn :> HM(6, 0) - Drift(d)) @@ (sunrise :> HM(7, 0) - Drift(d)) @@
        (noon :> HM(12, 30)) @@
        (sunset :> HM(18, 0) + Drift(d)) @@ (dusk :> HM(19, 0) + Drift(d))]
Sun(location, d) ==
    IF location.timezone \notin KnownTimezones
    THEN [ok |-> FALSE, cause |-> "No time zone found with key Mars/Phobos"]
    ELSE IF location.latitude >= 66
    THEN [ok |-> FALSE, cause |-> "Sun never reaches 6 degrees below the horizon"]
    ELSE IF location.latitude <= -66
    THEN [ok |-> FALSE, cause |-> "Sun is always below the horizon on this day"]
    ELSE [ok |-> TRUE, times |-> SunTimes[d]]

\* --------------------------------------------------- SolarTimeCalculator
\* The calculator and the histories kept about it travel together as a context
\* cx = [calc, log, failures].
NewCalc == [cache |-> <<>>, error_cache |-> {}]
NewCx == [calc |-> NewCalc, log |-> <<>>, failures |-> {}]

get_fallback_time(event) ==
    IF Lower(event) \in DOMAIN SOLAR_FALLBACKS
    THEN Returned(SOLAR_FALLBACKS[Lower(event)])
    ELSE Raised("KeyError")

\* A cache key that leaves the date out.
CacheKeyWithoutDate(event, date_obj, location) ==
    <<event, location.latitude, location.longitude, location.timezone>>

CacheKey(event, date_obj, location) ==
    <<event, date_obj, location.latitude, location.longitude, location.timezone>>

ErrorKey(event, location, cause) == <<"timezone", location.timezone>>

\* A cache that is consulted but never filled.
CacheStoreNothing(cache, key, result) == cache

CacheStore(cache, key, result) == (key :> result) @@ cache

\* A try block that hands the fallback on as its result when computing fails.
ComputeOrFallback(event, date_obj, location) ==
    IF event = midnight
    THEN [ok |-> TRUE, result |-> HM(0, 0)]
    ELSE IF Sun(location, date_obj).ok /\ event \in DOMAIN Sun(location, date_obj).times
    THEN [ok |-> TRUE, result |-> Sun(location, date_obj).times[event]]
    ELSE IF event \in DOMAIN SOLAR_FALLBACKS
    THEN [ok |-> TRUE, result |-> SOLAR_FALLBACKS[event]]
    ELSE [ok |-> FALSE, cause |-> "KeyError"]

\* The try block of resolve_time: the result, or the cause of the failure.
Compute(event, date_obj, location) ==
    IF event = midnight
    THEN [ok |-> TRUE, result |-> HM(0, 0)]
    ELSE Bind(Sun(location, date_obj), LAMBDA s :
             IF ~s.ok THEN [ok |-> FALSE, cause |-> s.cause]
             ELSE IF event \in DOMAIN s.times
             THEN [ok |-> TRUE, result |-> s.times[event]]
             ELSE [ok |-> FALSE, cause |-> "KeyError"])

\* resolve_time, after event = event.lower():
\* [exc, val, cx, computed, failed, hit, logged]
ResolveLowered(cx, event, date_obj, location) ==
    LET none == [computed |-> FALSE, failed |-> "", hit |-> FALSE, logged |-> FALSE]
    IN
    IF location.kind = "None"
    THEN get_fallback_time(event) @@ [cx |-> cx] @@ none
    ELSE Bind(CacheKey(event, date_obj, location), LAMBDA cache_key :
    IF cache_key \in DOMAIN cx.calc.cache
    THEN Returned(cx.calc.cache[cache_key]) @@ [cx |-> cx] @@ [none EXCEPT !.hit = TRUE]
    ELSE Bind(Compute(event, date_obj, location), LAMBDA c :
    IF c.ok
    THEN Returned(c.result)
         @@ [cx |-> [cx EXCEPT !.calc.cache = CacheStore(@, cache_key, c.result)]]
         @@ [none EXCEPT !.computed = TRUE]
    ELSE Bind(ErrorKey(event, location, c.cause), LAMBDA error_key :
         get_fallback_time(event)
         @@ [cx |-> [cx EXCEPT !.calc.error_cache = @ \cup {error_key},
                               !.log = IF error_key \notin cx.calc.error_cache
                                       THEN Append(@, c.cause) ELSE @,
                               !.failures = @ \cup {c.cause}]]
         @@ [computed |-> TRUE, failed |-> c.cause, hit |-> FALSE,
             logged |-> error_key \notin cx.calc.error_cache])))

\* resolve_time(event, date_obj, location)
resolve_time(cx, event, date_obj, location) ==
    Bind(Lower(event), LAMBDA lowered : ResolveLowered(cx, lowered, date_obj, location))

\* TimeSpec
Absolute(t) == [type |-> "absolute", base |-> t, offset |-> 0]
Solar(event, offset) == [type |-> "solar", base |-> event, offset |-> offset]

\* The offset added as seconds instead of minutes.
resolve_datetime_offset_in_seconds(cx, spec, base_date, location) ==
    IF spec.type = "absolute"
    THEN [exc |-> "", val |-> Combine(base_date, spec.base), cx |-> cx]
    ELSE Bind(resolve_time(cx, spec.base, base_date, convert_location(location)),
              LAMBDA r : [exc |-> r.exc,
                          val |-> IF r.exc # "" THEN 0
                                  ELSE Combine(base_date, r.val) + spec.offset,
                          cx |-> r.cx])

\* resolve_datetime(spec, base_date, location): [exc, val, cx]
resolve_datetime(cx, spec, base_date, location) ==
    IF spec.type = "absolute"
    THEN [exc |-> "", val |-> Combine(base_date, spec.base), cx |-> cx]
    ELSE Bind(convert_location(location), LAMBDA location_obj :
         Bind(resolve_time(cx, spec.base, base_date, location_obj), LAMBDA r :
                IF r.exc # ""
                THEN [exc |-> r.exc, val |-> 0, cx |-> r.cx]
                ELSE [exc |-> "",
                      val |-> Combine(base_date, r.val) + Timedelta(0, spec.offset),
                      cx |-> r.cx]))

\* ------------------------------------------------------------ schedules
\* A Schedule is [type, timeblocks, days]; timeblocks and days are sequences in
\* the dictionaries' insertion order (a missing dictionary is the empty one).
TimeBlock(name, start, end, images, shuffle) ==
    [name |-> name, start |-> start, end |-> end, images |-> images, shuffle |-> shuffle]
DaySchedule(key, images, shuffle) == [key |-> key, images |-> images, shuffle |-> shuffle]
NoBlock == TimeBlock("", Absolute(0), Absolute(0), <<>>, FALSE)

\* strftime("%A") of a date
WeekdayNames ==
    << <<"M","o","n","d","a","y">>, <<"T","u","e","s","d","a","y">>,
       <<"W","e","d","n","e","s","d","a","y">>, <<"T","h","u","r","s","d","a","y">>,
       <<"F","r","i","d","a","y">>, <<"S","a","t","u","r","d","a","y">>,
       <<"S","u","n","d","a","y">> >>
Weekday(d) == WeekdayNames[(d % 7) + 1]

\* int(a / b) for b > 0: truncation towards zero
IntDiv(a, b) == IF a >= 0 THEN a \div b ELSE -((-a) \div b)

\* --------------------------------------------------------- ScheduleManager
\* start and end of a block resolved on a date, as the code resolves them:
\* start first, then end.  [exc, start, end, cx]
ResolveBlock(cx, block, d, location) ==
    Bind(resolve_datetime(cx, block.start, d, location), LAMBDA s :
        IF s.exc # "" THEN [exc |-> s.exc, start |-> 0, end |-> 0, cx |-> s.cx]
        ELSE Bind(resolve_datetime(s.cx, block.end, d, location), LAMBDA e :
            [exc |-> e.exc, start |-> s.val, end |-> e.val, cx |-> e.cx]))

\* The test of one block in get_block's search for the current block.
IsCurrent(start, end0, when) ==
    LET crossing == end0 <= start
        end == IF crossing THEN end0 + Timedelta(1, 0) ELSE end0
    IN  \/ /\ crossing
           /\ when < end /\ TimeOf(when) < TimeOf(end)
           /\ start - Timedelta(1, 0) <= when /\ when < end - Timedelta(1, 0)
        \/ (start <= when /\ when < end)

BlockResult(exc, found, block, cx) ==
    [exc |-> exc, found |-> found, block |-> block, cx |-> cx]

RECURSIVE FindCurrent(_, _, _, _, _)
FindCurrent(cx, blocks, i, when, location) ==
    IF i > Len(blocks) THEN BlockResult("", FALSE, NoBlock, cx)
    ELSE Bind(ResolveBlock(cx, blocks[i], DateOf(when), location), LAMBDA r :
        IF r.exc # "" THEN BlockResult(r.exc, FALSE, NoBlock, r.cx)
        ELSE IF IsCurrent(r.start, r.end, when) THEN BlockResult("", TRUE, blocks[i], r.cx)
        ELSE FindCurrent(r.cx, blocks, i + 1, when, location))

\* Every block resolved on a date, in order: [exc, starts, cx]
RECURSIVE ResolveAll(_, _, _, _, _, _)
ResolveAll(cx, blocks, i, d, location, starts) ==
    IF i > Len(blocks) THEN [exc |-> "", starts |-> starts, cx |-> cx]
    ELSE Bind(ResolveBlock(cx, blocks[i], d, location), LAMBDA r :
        IF r.exc # "" THEN [exc |-> r.exc, starts |-> starts, cx |-> r.cx]
        ELSE ResolveAll(r.cx, blocks, i + 1, d, location, Append(starts, r.start)))

\* future_blocks.sort(key=start)[0]: the first candidate with the least start
\* (the sort is stable).
EarliestOf(candidates, starts) ==
    CHOOSE i \in candidates :
        \A j \in candidates : starts[i] < starts[j] \/ (starts[i] = starts[j] /\ i <= j)

\* Blocks starting at now counted among the future ones.
FutureTodayInclusive(starts, when) == {i \in DOMAIN starts : starts[i] >= when}

FutureToday(starts, when) == {i \in DOMAIN starts : starts[i] > when}

FindNext(cx, blocks, when, location) ==
    Bind(ResolveAll(cx, blocks, 1, DateOf(when), location, <<>>), LAMBDA today :
        IF today.exc # "" THEN BlockResult(today.exc, FALSE, NoBlock, today.cx)
        ELSE IF FutureToday(today.starts, when) # {}
        THEN BlockResult("", TRUE,
                         blocks[EarliestOf(FutureToday(today.starts, when), today.starts)],
                         today.cx)
        ELSE Bind(ResolveAll(today.cx, blocks, 1, DateOf(when) + 1, location, <<>>),
                  LAMBDA tomorrow :
            IF tomorrow.exc # "" THEN BlockResult(tomorrow.exc, FALSE, NoBlock, tomorrow.cx)
            ELSE BlockResult("", TRUE,
                             blocks[EarliestOf(DOMAIN tomorrow.starts, tomorrow.starts)],
                             tomorrow.cx)))

\* get_block(schedule, global_location, get_next): [exc, found, block, cx]
get_block(cx, schedule, location, get_next, when) ==
    IF schedule.type # "timeblocks" \/ schedule.timeblocks = <<>>
    THEN BlockResult("", FALSE, NoBlock, cx)
    ELSE IF get_next THEN FindNext(cx, schedule.timeblocks, when, location)
    ELSE FindCurrent(cx, schedule.timeblocks, 1, when, location)

\* An index rounded to the nearest image instead of truncated.
get_image_index_rounded(block, when, start, end, is_next) ==
    IF block.shuffle THEN (IF is_next THEN 1 ELSE 0)
    ELSE LET n == Len(block.images)
             i == (2 * (when - start) * n + (end - start)) \div (2 * (end - start))
         IN  IF n = 0 THEN -1
             ELSE IF i < 0 THEN 0 ELSE IF i > n - 1 THEN n - 1 ELSE i

\* _get_image_index(block, when, start, end, is_next)
get_image_index(block, when, start, end, is_next) ==
    IF block.shuffle THEN (IF is_next THEN 1 ELSE 0)
    ELSE LET total_duration == end - start
             elapsed == when - start
             num_images == Len(block.images)
         IN  IF num_images = 0 THEN -1
             ELSE LET current_index == IntDiv(elapsed * num_images, total_duration)
                      index == IF is_next THEN (current_index + 1) % num_images
                               ELSE current_index
                      low == IF index < 0 THEN 0 ELSE index
                  IN  IF low < num_images - 1 THEN low ELSE num_images - 1

\* _get_block_times(block, test_date, global_location): [exc, start, end, dur, cx];
\* the per-image duration is kept exact, as total_duration over the image count
\* (0 over 1 for a block with no images).
get_block_times(cx, block, test_date, location) ==
    Bind(ResolveBlock(cx, block, test_date, location), LAMBDA r :
        LET end == IF r.end <= r.start THEN r.end + Timedelta(1, 0) ELSE r.end
        IN  [exc |-> r.exc, start |-> r.start, end |-> end,
             dur |-> IF block.images # <<>>
                     THEN [num |-> end - r.start, den |-> Len(block.images)]
                     ELSE [num |-> 0, den |-> 1],
             cx |-> r.cx])

\* The window of the first image whatever the index.
PlusImagesOfFirst(start, k, dur) == start

\* start + timedelta(seconds = k * image_duration)
PlusImages(start, k, dur) == start + (k * dur.num) \div dur.den

\* What get_wallpaper returns.
WallpaperNone(cx, include_time) ==
    [exc |-> "", tag |-> IF include_time THEN "none3" ELSE "none",
     image |-> "", start |-> 0, end |-> 0, cx |-> cx]
Wallpaper(cx, include_time, image, start, end) ==
    IF include_time
    THEN [exc |-> "", tag |-> "tuple", image |-> image, start |-> start, end |-> end,
          cx |-> cx]
    ELSE [exc |-> "", tag |-> "path", image |-> image, start |-> 0, end |-> 0, cx |-> cx]
WallpaperRaised(cx, exc) ==
    [exc |-> exc, tag |-> "raised", image |-> "", start |-> 0, end |-> 0, cx |-> cx]

\* The times of the current block, re-anchored on the previous date when the
\* block began the day before (lines 406-417 and 462-470).
AnchoredTimes(cx, block, when, location) ==
    Bind(get_block_times(cx, block, DateOf(when), location), LAMBDA t :
        IF t.exc # "" THEN t
        ELSE IF when < t.start /\ DateOf(t.end) # DateOf(t.start)
        THEN Bind(get_block_times(t.cx, block, DateOf(when) - 1, location), LAMBDA p :
                IF p.exc # "" THEN p
                ELSE IF p.start <= when /\ when < p.end THEN p
                ELSE [t EXCEPT !.cx = p.cx])
        ELSE t)

\* The first image of a block with the block's times on now's date.
FirstImageOf(cx, block, when, location, include_time) ==
    IF include_time
    THEN Bind(get_block_times(cx, block, DateOf(when), location), LAMBDA t :
            IF t.exc # "" THEN WallpaperRaised(t.cx, t.exc)
            ELSE Wallpaper(t.cx, TRUE, block.images[1], t.start, t.end))
    ELSE Wallpaper(cx, FALSE, block.images[1], 0, 0)

\* get_wallpaper, Timeblocks, get_next (lines 403-458)
NextInBlocks(cx, schedule, current, next, when, location, include_time) ==
    IF current.found /\ current.block.images # <<>>
    THEN Bind(AnchoredTimes(cx, current.block, when, location), LAMBDA t :
        IF t.exc # "" THEN WallpaperRaised(t.cx, t.exc)
        ELSE IF (t.end - when) * t.dur.den >= t.dur.num
        THEN IF current.block.shuffle
             THEN Wallpaper(t.cx, include_time, current.block.images[1], t.start, t.end)
             ELSE LET current_index ==
                          get_image_index(current.block, when, t.start, t.end, FALSE)
                      next_index == (current_index + 1) % Len(current.block.images)
                      image_start == PlusImages(t.start, next_index, t.dur)
                  IN  Wallpaper(t.cx, include_time, current.block.images[next_index + 1],
                                image_start, PlusImages(image_start, 1, t.dur))
        ELSE IF next.found /\ next.block.images # <<>>
        THEN FirstImageOf(t.cx, next.block, when, location, include_time)
        ELSE IF schedule.timeblocks # <<>> /\ schedule.timeblocks[1].images # <<>>
        THEN FirstImageOf(t.cx, schedule.timeblocks[1], when, location, include_time)
        ELSE WallpaperNone(t.cx, include_time))
    ELSE IF next.found /\ next.block.images # <<>>
    THEN FirstImageOf(cx, next.block, when, location, include_time)
    ELSE WallpaperNone(cx, include_time)

\* get_wallpaper, Timeblocks, current (lines 460-485, then 588)
CurrentInBlocks(cx, current, when, location, include_time) ==
    IF current.found /\ current.block.images # <<>>
    THEN Bind(AnchoredTimes(cx, current.block, when, location), LAMBDA t :
        IF t.exc # "" THEN WallpaperRaised(t.cx, t.exc)
        ELSE IF when < t.start THEN WallpaperNone(t.cx, include_time)
        ELSE IF when >= t.end
        THEN Wallpaper(t.cx, include_time,
                       current.block.images[Len(current.block.images)], t.start, t.end)
        ELSE LET image_index == get_image_index(current.block, when, t.start, t.end, FALSE)
                 image_start == PlusImages(t.start, image_index, t.dur)
             IN  IF image_index < 0 THEN WallpaperNone(t.cx, include_time)
                 ELSE Wallpaper(t.cx, include_time, current.block.images[image_index + 1],
                                image_start, PlusImages(image_start, 1, t.dur)))
    ELSE WallpaperNone(cx, include_time)

\* schedule.days[key], as [found, entry]
DayIndex(days, key) == {i \in DOMAIN days : days[i].key = key}
HasDay(days, key) == DayIndex(days, key) # {}
DayEntry(days, key) == days[CHOOSE i \in DayIndex(days, key) : TRUE]
HasImages(days, key) == HasDay(days, key) /\ DayEntry(days, key).images # <<>>

\* strftime("%A").lower()
DayName(d) == Lower(Weekday(d))

\* The first image of the following weekday, or of the first weekday defined
\* (lines 535-546 and 571-581); indexing an empty image list raises IndexError.
NextDayFirst(cx, days, test_date, include_time) ==
    LET next_day == DayName(test_date + 1)
        start == Combine(test_date + 1, HM(0, 0))
        end == Combine(test_date + 1, HM(23, 59))
    IN  IF HasImages(days, next_day)
        THEN Wallpaper(cx, include_time, DayEntry(days, next_day).images[1], start, end)
        ELSE IF days[1].images = <<>>
        THEN WallpaperRaised(cx, "IndexError")
        ELSE Wallpaper(cx, include_time, days[1].images[1], start, end)

\* A day index rounded to the nearest image instead of truncated.
DayImageIndexRounded(n, when) ==
    ((2 * (when - Combine(DateOf(when), 0)) * n + DaySeconds) \div (2 * DaySeconds)) % n

\* The index of the image a non-shuffled day shows at an instant.
DayImageIndex(n, when) == IntDiv((when - Combine(DateOf(when), 0)) * n, DaySeconds)

\* get_wallpaper, Days (lines 487-588)
InDays(cx, schedule, when, include_time, get_next) ==
    LET days == schedule.days
        test_date == DateOf(when)
        current_day == DayName(test_date)
        midnight0 == Combine(test_date, HM(0, 0))
        last_minute == Combine(test_date, HM(23, 59))
    IN
    IF days = <<>> THEN WallpaperNone(cx, include_time)
    ELSE IF HasImages(days, current_day)
    THEN LET day_schedule == DayEntry(days, current_day)
             n == Len(day_schedule.images)
             current_index == DayImageIndex(n, when)
             next_index == (current_index + 1) % n
         IN
         IF get_next
         THEN IF day_schedule.shuffle
              THEN IF last_minute - when > 0
                   THEN Wallpaper(cx, include_time, day_schedule.images[1], when, last_minute)
                   ELSE NextDayFirst(cx, days, test_date, include_time)
              ELSE IF next_index = 0
                   THEN WallpaperRaised(cx, "UnboundLocalError")
                   ELSE Wallpaper(cx, include_time, day_schedule.images[next_index + 1],
                                  midnight0 + (next_index * DaySeconds) \div n,
                                  midnight0 + ((next_index + 1) * DaySeconds) \div n)
         ELSE IF day_schedule.shuffle
              THEN Wallpaper(cx, include_time, day_schedule.images[1], midnight0, last_minute)
              ELSE Wallpaper(cx, include_time, day_schedule.images[current_index + 1],
                             midnight0 + (current_index * DaySeconds) \div n,
                             midnight0 + ((current_index + 1) * DaySeconds) \div n)
    ELSE IF days[1].images # <<>>
    THEN IF get_next
         THEN NextDayFirst(cx, days, test_date, include_time)
         ELSE Wallpaper(cx, include_time, days[1].images[1], midnight0, last_minute)
    ELSE WallpaperNone(cx, include_time)

\* get_wallpaper(schedule, global_location, include_time, get_next)
get_wallpaper(cx, schedule, location, include_time, get_next, when) ==
    IF schedule.type = "timeblocks"
    THEN Bind(get_block(cx, schedule, location, FALSE, when), LAMBDA current :
         IF current.exc # "" THEN WallpaperRaised(current.cx, current.exc)
         ELSE Bind(get_block(current.cx, schedule, location, TRUE, when), LAMBDA next :
              IF next.exc # "" THEN WallpaperRaised(next.cx, next.exc)
              ELSE IF get_next
              THEN NextInBlocks(next.cx, schedule, current, next, when, location,
                                include_time)
              ELSE CurrentInBlocks(next.cx, current, when, location, include_time)))
    ELSE IF schedule.type = "days"
    THEN InDays(cx, schedule, when, include_time, get_next)
    ELSE WallpaperNone(cx, include_time)

\* ------------------------------------------------------------ the state
Cx == [calc |-> calc, log |-> log, failures |-> failures]
SetCx(cx) ==
    /\ calc' = cx.calc
    /\ log' = cx.log
    /\ failures' = cx.failures

NoCall == [op |-> "none"]
EmptySchedule == [type |-> "timeblocks", timeblocks |-> <<>>, days |-> <<>>]

CalcEvents == {sunrise, SUNRISE_upper, midnight, invalid_event}
\* The event names asked for without a location: every accepted name, names in
\* upper and mixed case, and a name outside the table.
FallbackEvents ==
    {midnight, dawn, sunrise, noon, sunset, dusk, SUNRISE_upper, Dawn_mixed, invalid_event}
CalcDates == {0, 1}
CalcLocations == {NoLocation, Good, BadTz, PolarN, PolarS}
CalcSpecs == {Absolute(HM(8, 30)), Solar(sunrise, 30), Solar(dusk, -15)}

InitCalc ==
    /\ now = Combine(0, 0)
    /\ sched = EmptySchedule
    /\ calc = NewCalc
    /\ log = <<>>
    /\ failures = {}
    /\ seen = <<>>
    /\ ncalls = 0
    /\ last = NoCall
    /\ messages = <<>>

\* A direct call calculator.resolve_time(event, date_obj, location).
ResolveTimeCall ==
    /\ ncalls < MaxCalls
    /\ \E event \in FallbackEvents, d \in CalcDates, location \in CalcLocations :
         \E r \in {resolve_time(Cx, event, d, location)} :
             /\ location = NoLocation \/ event \in CalcEvents
             /\ SetCx(r.cx)
             /\ last' = [op |-> "resolve_time", event |-> event, date |-> d,
                         location |-> location, exc |-> r.exc, val |-> r.val,
                         computed |-> r.computed, failed |-> r.failed, hit |-> r.hit,
                         logged |-> r.logged, cache_before |-> calc.cache,
                         seen_before |-> seen, failures_before |-> failures]
             /\ seen' = IF location.kind = "None" \/ r.exc # ""
                           \/ CacheKey(Lower(event), d, location) \in DOMAIN seen
                        THEN seen
                        ELSE (CacheKey(Lower(event), d, location) :>
                                 [val |-> r.val, ok |-> r.failed = ""]) @@ seen
    /\ ncalls' = ncalls + 1
    /\ UNCHANGED <<now, sched, messages>>

\* A direct call calculator.resolve_datetime(spec, base_date, location).
ResolveDatetimeCall ==
    /\ ncalls < MaxCalls
    /\ \E spec \in CalcSpecs, d \in CalcDates, location \in {NoLocation, GoodDict, BadTz} :
         \E r \in {resolve_datetime(Cx, spec, d, location)} :
             /\ SetCx(r.cx)
             /\ last' = [op |-> "resolve_datetime", spec |-> spec, date |-> d,
                         location |-> location, exc |-> r.exc, val |-> r.val,
                         cache_before |-> calc.cache]
    /\ ncalls' = ncalls + 1
    /\ UNCHANGED <<now, sched, seen, messages>>

NextCalc == ResolveTimeCall \/ ResolveDatetimeCall

SpecCalc == InitCalc /\ [][NextCalc]_vars

\* ------------------------------------------------------- the engine's inputs
Images(name, n) == [k \in 1..n |-> <<name, k>>]
A(h, m) == Absolute(HM(h, m))
Timeblocks(blocks) == [type |-> "timeblocks", timeblocks |-> blocks, days |-> <<>>]
Days(entries) == [type |-> "days", timeblocks |-> <<>>, days |-> entries]

monday == <<"m","o","n","d","a","y">>
tuesday == <<"t","u","e","s","d","a","y">>
wednesday == <<"w","e","d","n","e","s","d","a","y">>
thursday == <<"t","h","u","r","s","d","a","y">>

\* One block from each start to each end, two images in sequence.
BlockSpecs == {A(6, 0), A(22, 0), Solar(sunrise, 0), Solar(sunset, 0), Solar(sunset, 400)}
OneBlockSchedules ==
    {Timeblocks(<<TimeBlock("b", s, e, Images("b", 2), FALSE)>>) : s, e \in BlockSpecs}

\* The same night block with every image count and shuffle setting.
NightSchedules ==
    {Timeblocks(<<TimeBlock("night", A(22, 0), A(6, 0), Images("n", n), sh)>>) :
        n \in 0..3, sh \in BOOLEAN}

SeveralBlockSchedules ==
    { Timeblocks(<<TimeBlock("morning", A(6, 0), A(12, 0), Images("m", 1), FALSE),
                   TimeBlock("afternoon", A(12, 0), A(18, 0), Images("a", 3), FALSE),
                   TimeBlock("evening", A(18, 0), A(6, 0), Images("e", 2), FALSE)>>),
      Timeblocks(<<TimeBlock("A", A(6, 0), A(10, 0), Images("A", 2), TRUE),
                   TimeBlock("B", A(11, 0), A(15, 0), Images("B", 0), FALSE)>>),
      Timeblocks(<<TimeBlock("A", A(8, 0), A(12, 0), Images("A", 1), FALSE),
                   TimeBlock("B", A(11, 0), A(15, 0), Images("B", 1), FALSE)>>),
      Timeblocks(<<TimeBlock("B", A(11, 0), A(15, 0), Images("B", 1), FALSE),
                   TimeBlock("A", A(8, 0), A(12, 0), Images("A", 1), FALSE)>>),
      Timeblocks(<<TimeBlock("day", Solar(sunrise, 0), Solar(sunset, 0), Images("d", 3), FALSE),
                   TimeBlock("night", Solar(sunset, 0), Solar(sunrise, 0), Images("n", 2),
                             FALSE)>>),
      Timeblocks(<<TimeBlock("late", A(20, 0), A(2, 0), Images("l", 2), FALSE),
                   TimeBlock("early", A(7, 0), A(7, 0), Images("e", 3), FALSE)>>),
      Timeblocks(<<>>) }

DaySchedules ==
    { Days(<<DaySchedule(monday, Images("mon", 3), FALSE),
             DaySchedule(tuesday, Images("tue", 2), TRUE)>>),
      Days(<<DaySchedule(monday, Images("mon", 1), FALSE)>>),
      Days(<<DaySchedule(thursday, Images("thu", 0), FALSE),
             DaySchedule(tuesday, Images("tue", 1), TRUE),
             DaySchedule(monday, Images("mon", 0), FALSE)>>),
      Days(<<DaySchedule(wednesday, Images("wed", 2), FALSE),
             DaySchedule(tuesday, Images("tue", 0), TRUE)>>),
      Days(<<>>) }

\* _parse_days(data): data is the [days] table in file order, each entry
\* [day, spec]; a spec is a string (one image) or a table with images and an
\* optional shuffle.  [exc, days]
StrSpec(image) == [kind |-> "str", image |-> image]
TableSpec(fields) == [kind |-> "table", fields |-> fields]
RECURSIVE parse_days(_)
parse_days(data) ==
    IF data = <<>> THEN [exc |-> "", days |-> <<>>]
    ELSE LET day == data[Len(data)].day
             spec == data[Len(data)].spec
         IN  Bind(parse_days(SubSeq(data, 1, Len(data) - 1)), LAMBDA before :
             IF before.exc # "" THEN before
             ELSE IF spec.kind = "str"
             THEN [exc |-> "", days |-> Append(before.days,
                                            DaySchedule(day, <<spec.image>>, FALSE))]
             ELSE IF "images" \notin DOMAIN spec.fields
             THEN [exc |-> "ValueError", days |-> <<>>]
             ELSE [exc |-> "", days |-> Append(before.days,
                       DaySchedule(day, spec.fields["images"],
                                   DictGet(spec.fields, "shuffle", FALSE)))])

\* Day schedules loaded from definitions whose keys are written with a capital.
LoadedDaySchedules ==
    { Days(parse_days(<<[day |-> Capitalize(tuesday), spec |-> StrSpec(<<"tue", 1>>)],
                        [day |-> Capitalize(monday),
                         spec |-> TableSpec([images |-> Images("mon", 3)])]>>).days) }

Schedules == OneBlockSchedules \cup NightSchedules \cup SeveralBlockSchedules
             \cup DaySchedules \cup LoadedDaySchedules

Locations == {NoLocation, GoodDict, BadTz}

\* The instants the clock shows: every hour of days 0..MaxDay, the half hours at
\* which the fallback sunrise and sunset fall, and the last minute of each day.
ClockTimes == {HM(h, 0) : h \in 0..23} \cup {HM(6, 30), HM(18, 30)}
              \cup {HM(23, 59), HM(23, 59) + 30}
Instants == {Combine(d, t) : d \in 0..MaxDay, t \in ClockTimes}

Init ==
    /\ now = Combine(0, HM(0, 0))
    /\ sched \in Schedules
    /\ calc = NewCalc
    /\ log = <<>>
    /\ failures = {}
    /\ seen = <<>>
    /\ ncalls = 0
    /\ last = NoCall
    /\ messages = <<>>

\* The caller takes the result of the call it made.
TakeResult ==
    /\ last # NoCall
    /\ last' = NoCall
    /\ UNCHANGED <<now, sched, calc, log, failures, seen, ncalls, messages>>

\* Time passes: the clock shows the next instant.
Tick ==
    /\ last = NoCall
    /\ \E t \in Instants :
         /\ t > now
         /\ \A u \in Instants : u > now => t <= u
         /\ now' = t
    /\ UNCHANGED <<sched, calc, log, failures, seen, ncalls, last, messages>>

\* manager.get_block(schedule, global_location, get_next)
GetBlockCall ==
    /\ last = NoCall
    /\ \E location \in Locations, get_next \in BOOLEAN :
         \E r \in {get_block(Cx, sched, location, get_next, now)} :
             /\ SetCx(r.cx)
             /\ last' = [op |-> "get_block", location |-> location, get_next |-> get_next,
                         now |-> now, exc |-> r.exc, found |-> r.found, block |-> r.block]
    /\ UNCHANGED <<now, sched, seen, ncalls, messages>>

\* manager.get_wallpaper(schedule, global_location, include_time, get_next)
GetWallpaperCall ==
    /\ last = NoCall
    /\ \E location \in Locations, include_time \in BOOLEAN, get_next \in BOOLEAN :
         \E r \in {get_wallpaper(Cx, sched, location, include_time, get_next, now)} :
             /\ SetCx(r.cx)
             /\ last' = [op |-> "get_wallpaper", location |-> location,
                         warm |-> calc.cache # <<>>,
                         include_time |-> include_time, get_next |-> get_next,
                         now |-> now, exc |-> r.exc, tag |-> r.tag, image |-> r.image,
                         start |-> r.start, end |-> r.end]
    /\ UNCHANGED <<now, sched, seen, ncalls, messages>>

Next == Tick \/ GetBlockCall \/ GetWallpaperCall \/ TakeResult

Spec == Init /\ [][Next]_vars

\* ================================================================ claims
\* What a time specification resolves to on a date, whatever the calculator holds.
ResolvedAt(spec, d, location) == resolve_datetime(NewCx, spec, d, location).val

\* The interval of a block anchored on a date: its start and end resolved on that
\* date, the end moved to the next day when it is at or before the start.
Crosses(b, d, location) == ResolvedAt(b.end, d, location) <= ResolvedAt(b.start, d, location)
AnchorStart(b, d, location) == ResolvedAt(b.start, d, location)
AnchorEnd(b, d, location) ==
    IF Crosses(b, d, location) THEN ResolvedAt(b.end, d, location) + Timedelta(1, 0)
    ELSE ResolvedAt(b.end, d, location)
InAnchor(b, d, t, location) ==
    AnchorStart(b, d, location) <= t /\ t < AnchorEnd(b, d, location)
\* now is inside the block: in its interval anchored on now's date, or in its
\* interval anchored on the day before.
InInterval(b, t, location) ==
    \/ InAnchor(b, DateOf(t), t, location)
    \/ InAnchor(b, DateOf(t) - 1, t, location)
\* The date on which the interval holding now began.
AnchorDate(b, t, location) ==
    IF InAnchor(b, DateOf(t), t, location) THEN DateOf(t) ELSE DateOf(t) - 1

Clamp(i, n) == IF i < 0 THEN 0 ELSE IF i > n - 1 THEN n - 1 ELSE i
\* floor((now - start) / ((end - start) / n)) clamped into 0..n-1
SequentialIndex(b, t, start, end) ==
    Clamp(((t - start) * Len(b.images)) \div (end - start), Len(b.images))
ExpectedImage(b, t, location) ==
    LET d0 == AnchorDate(b, t, location)
    IN  IF b.shuffle THEN b.images[1]
        ELSE b.images[1 + SequentialIndex(b, t, AnchorStart(b, d0, location),
                                          AnchorEnd(b, d0, location))]

Containing(t, location) ==
    {i \in DOMAIN sched.timeblocks : InInterval(sched.timeblocks[i], t, location)}
FirstOf(S) == CHOOSE i \in S : \A j \in S : i <= j

IsGetBlock(get_next) == last.op = "get_block" /\ last.get_next = get_next
IsGetWallpaper(get_next) == last.op = "get_wallpaper" /\ last.get_next = get_next

\* C1: a midnight-crossing block (resolved end at or before resolved start) is the
\* current block at every instant from its start until its end on the next
\* calendar day, and get_wallpaper (current) picks the image from the time elapsed
\* since the start on the day the block began.
C1_MidnightCrossingBlock ==
    \A i \in DOMAIN sched.timeblocks :
        LET b == sched.timeblocks[i]
            t == last.now
            d0 == AnchorDate(b, t, last.location)
        IN  ( /\ last.op \in {"get_block", "get_wallpaper"} /\ ~last.get_next
              /\ sched.type = "timeblocks"
              /\ InInterval(b, t, last.location)
              /\ Crosses(b, d0, last.location)
              /\ i = FirstOf(Containing(t, last.location)) )
            => /\ last.exc = ""
               /\ last.op = "get_block" => last.found /\ last.block = b
               /\ (last.op = "get_wallpaper" /\ b.images # <<>>)
                     => /\ last.tag \in {"path", "tuple"}
                        /\ last.image = ExpectedImage(b, t, last.location)

\* C2: get_block (current) returns the first block, in definition order, whose
\* half-open interval [start, end) contains now, and none when there is no such
\* block, when the schedule is of type Days and when the timeblock map is empty.
C2_FirstContainingBlock ==
    IsGetBlock(FALSE) =>
        /\ last.exc = ""
        /\ IF sched.type # "timeblocks" \/ Containing(last.now, last.location) = {}
           THEN ~last.found
           ELSE /\ last.found
                /\ last.block = sched.timeblocks[FirstOf(Containing(last.now, last.location))]

\* The anchor date of the window get_wallpaper works with: now's date, or the
\* previous date when now precedes today's start, the block as resolved today ends
\* on a later date than it starts, and the previous date's interval holds now.
WindowDate(b, t, location) ==
    LET d == DateOf(t)
    IN  IF /\ t < AnchorStart(b, d, location)
           /\ DateOf(AnchorEnd(b, d, location)) # DateOf(AnchorStart(b, d, location))
           /\ InAnchor(b, d - 1, t, location)
        THEN d - 1 ELSE d

\* The block a calculator fresh from construction would name as current.
CurrentBlock == get_block(NewCx, sched, last.location, FALSE, last.now)

\* The starts of every block resolved on a date.
StartsOn(d, location) ==
    [i \in DOMAIN sched.timeblocks |-> ResolvedAt(sched.timeblocks[i].start, d, location)]
Least(S, starts) == {i \in S : \A j \in S : starts[i] <= starts[j]}

C4_CurrentImageIndex ==
    (IsGetWallpaper(FALSE) /\ sched.type = "timeblocks") =>
        LET b == CurrentBlock.block
            d == WindowDate(b, last.now, last.location)
        IN  ( /\ CurrentBlock.found
              /\ Len(b.images) >= 1
              /\ InAnchor(b, d, last.now, last.location) )
            => /\ last.exc = ""
               /\ last.tag \in {"path", "tuple"}
               /\ last.image =
                     IF b.shuffle THEN b.images[1]
                     ELSE b.images[1 + SequentialIndex(b, last.now,
                                                       AnchorStart(b, d, last.location),
                                                       AnchorEnd(b, d, last.location))]

\* C4 witness: a sequential block that began the day before shows an image other
\* than its first.
C4_Witness ==
    /\ IsGetWallpaper(FALSE) /\ sched.type = "timeblocks"
    /\ CurrentBlock.found
    /\ ~CurrentBlock.block.shuffle
    /\ Len(CurrentBlock.block.images) >= 2
    /\ WindowDate(CurrentBlock.block, last.now, last.location) = DateOf(last.now) - 1
    /\ InAnchor(CurrentBlock.block, DateOf(last.now) - 1, last.now, last.location)
    /\ last.tag = "tuple"
    /\ last.image # CurrentBlock.block.images[1]

\* C5: for a Days schedule whose entry for now's weekday is not shuffled and has
\* n >= 1 images, get_wallpaper (current) returns images[floor(elapsed / (24h / n))],
\* elapsed being the time since midnight of now's date; the index is in 0..n-1.
C5_DayImageByElapsed ==
    ( /\ IsGetWallpaper(FALSE) /\ sched.type = "days"
      /\ \E i \in DOMAIN sched.days :
            sched.days[i].key = Lower(Weekday(DateOf(last.now))) )
    => LET entry == sched.days[CHOOSE i \in DOMAIN sched.days :
                                  sched.days[i].key = Lower(Weekday(DateOf(last.now)))]
           n == Len(entry.images)
           index == (TimeOf(last.now) * n) \div DaySeconds
       IN  (~entry.shuffle /\ n >= 1)
           => /\ last.exc = ""
              /\ index \in 0 .. n - 1
              /\ last.tag \in {"path", "tuple"}
              /\ last.image = entry.images[index + 1]

\* C5 witness: three images on a Monday at 10:00 give the second image.
C5_Witness ==
    /\ IsGetWallpaper(FALSE) /\ sched.type = "days"
    /\ last.now = Combine(0, HM(10, 0))
    /\ HasDay(sched.days, monday)
    /\ Len(DayEntry(sched.days, monday).images) = 3
    /\ ~DayEntry(sched.days, monday).shuffle
    /\ last.image = DayEntry(sched.days, monday).images[2]

\* C6: get_block and get_wallpaper (current and next, with or without the time
\* window) complete without raising for every schedule, location and instant.
C6_EngineNeverRaises ==
    last.op \in {"get_block", "get_wallpaper"} => last.exc = ""

\* C7: get_wallpaper is a function of (schedule, location, now) only: whatever
\* the calculator's cache and seen-error set hold, the call returns what a
\* calculator fresh from construction returns for the same arguments.
C7_FunctionOfInputs ==
    last.op = "get_wallpaper" =>
        \E r \in {get_wallpaper(NewCx, sched, last.location, last.include_time,
                                last.get_next, last.now)} :
            /\ last.exc = r.exc
            /\ last.tag = r.tag
            /\ last.image = r.image
            /\ last.start = r.start
            /\ last.end = r.end

\* C7 witness: a call on a calculator whose cache is warm returns an image of a
\* schedule that names a solar event, at a place whose solar times are computed.
C7_Witness ==
    /\ last.op = "get_wallpaper"
    /\ last.warm
    /\ last.location = GoodDict
    /\ last.tag = "tuple"
    /\ \E i \in DOMAIN sched.timeblocks : sched.timeblocks[i].start.type = "solar"
    /\ DateOf(last.now) = 1

\* C8: resolve_time never raises to its caller: for every event name, date and
\* location it returns a time of day, the fallback table's when computing fails.
C8_ResolveTimeNeverRaises ==
    last.op = "resolve_time" =>
        /\ last.exc = ""
        /\ last.val \in 0 .. DaySeconds - 1
        /\ last.failed # "" =>
              /\ Lower(last.event) \in DOMAIN SOLAR_FALLBACKS
              /\ last.val = SOLAR_FALLBACKS[Lower(last.event)]

\* C9: over any sequence of calls on one calculator each distinct failure cause
\* is logged exactly once: a failing call logs its cause exactly when no earlier
\* call failed with that cause.
C9_EachCauseLoggedOnce ==
    /\ \A c \in failures : Cardinality({i \in DOMAIN log : log[i] = c}) = 1
    /\ (last.op = "resolve_time" /\ last.failed # "") =>
           (last.logged <=> last.failed \notin last.failures_before)

\* The cache key of the last resolve_time call.
LastKey == CacheKey(Lower(last.event), last.date, last.location)
IsRepeat ==
    /\ last.op = "resolve_time"
    /\ last.location.kind # "None"
    /\ last.exc = ""
    /\ LastKey \in DOMAIN last.seen_before

\* C10 as stated: a second call with an identical key returns the first call's
\* value, does not grow the cache and does not recompute; a successful call with
\* a key not yet in the cache adds exactly one entry.
C10_IdenticalKeyNeverRecomputes ==
    /\ IsRepeat =>
          /\ last.val = last.seen_before[LastKey].val
          /\ calc.cache = last.cache_before
          /\ ~last.computed
    /\ ( /\ last.op = "resolve_time" /\ last.location.kind # "None"
         /\ last.computed /\ last.failed = "" /\ last.exc = ""
         /\ LastKey \notin DOMAIN last.cache_before )
       => /\ DOMAIN calc.cache = DOMAIN last.cache_before \cup {LastKey}
          /\ \A k \in DOMAIN last.cache_before : calc.cache[k] = last.cache_before[k]

\* C10 amended: a second call with an identical key returns the first call's
\* value and does not grow the cache; it does not recompute when the first
\* call's computation succeeded; a successful call with a key not yet in the
\* cache adds exactly one entry, the value it returns.
C10_SuccessfulKeyNeverRecomputes ==
    /\ IsRepeat =>
          /\ last.val = last.seen_before[LastKey].val
          /\ calc.cache = last.cache_before
          /\ last.seen_before[LastKey].ok => (~last.computed /\ last.hit)
    /\ ( /\ last.op = "resolve_time" /\ last.location.kind # "None"
         /\ last.computed /\ last.failed = "" /\ last.exc = ""
         /\ LastKey \notin DOMAIN last.cache_before )
       => /\ DOMAIN calc.cache = DOMAIN last.cache_before \cup {LastKey}
          /\ Cardinality(DOMAIN calc.cache) = Cardinality(DOMAIN last.cache_before) + 1
          /\ calc.cache[LastKey] = last.val
          /\ \A k \in DOMAIN last.cache_before : calc.cache[k] = last.cache_before[k]

\* C10 witness: a computed solar time is asked for again and comes from the cache.
C10_Witness ==
    /\ IsRepeat
    /\ last.seen_before[LastKey].ok
    /\ Lower(last.event) = sunrise
    /\ last.hit

\* The fallback table as the specification prints it.
StatedFallbacks ==
    (midnight :> HM(0, 0)) @@ (dawn :> HM(5, 0)) @@ (sunrise :> HM(6, 30)) @@
    (noon :> HM(12, 0)) @@ (sunset :> HM(18, 30)) @@ (dusk :> HM(19, 30))

\* C11: with no location resolve_time returns the static fallback of the event
\* (midnight 00:00, dawn 05:00, sunrise 06:30, noon 12:00, sunset 18:30, dusk
\* 19:30), whatever the date, the letter case of the name and the calls made
\* before, and resolve_datetime of a Solar spec with no location is the base
\* date combined with that fallback plus the offset in minutes.
C11_FallbackWithoutLocation ==
    /\ ( /\ last.op = "resolve_time" /\ last.location = NoLocation
         /\ Lower(last.event) \in DOMAIN StatedFallbacks )
       => /\ last.exc = ""
          /\ last.val = StatedFallbacks[Lower(last.event)]
          /\ calc.cache = last.cache_before
    /\ ( /\ last.op = "resolve_datetime" /\ last.location = NoLocation
         /\ last.spec.type = "solar" )
       => /\ last.exc = ""
          /\ last.val = last.date * DaySeconds + StatedFallbacks[Lower(last.spec.base)]
                        + 60 * last.spec.offset

\* C11 witness: after calls that filled the cache, dawn asked in mixed case for
\* the later date with no location is 05:00.
C11_Witness ==
    /\ last.op = "resolve_time" /\ last.location = NoLocation
    /\ last.event = Dawn_mixed
    /\ last.date = 1
    /\ last.cache_before # <<>>
    /\ last.val = HM(5, 0)

\* ======================================================= the time-spec parser
\* ------------------------------------------------------------ text helpers
Digits == <<"0","1","2","3","4","5","6","7","8","9">>
DigitOf == [c \in {Digits[i] : i \in DOMAIN Digits} |->
               (CHOOSE i \in DOMAIN Digits : Digits[i] = c) - 1]
IsDigit(c) == c \in DOMAIN DigitOf
IsSpace(c) == c = " "
\* \w of the regular expression
IsWord(c) == IsDigit(c) \/ c = "_" \/ c \in DOMAIN LowerOf
                \/ c \in {LowerChars[i] : i \in DOMAIN LowerChars}
AllDigits(s) == \A i \in DOMAIN s : IsDigit(s[i])

\* int(s) of a non-empty sequence of digits
RECURSIVE ToInt(_)
ToInt(s) == IF s = <<>> THEN 0 ELSE 10 * ToInt(SubSeq(s, 1, Len(s) - 1)) + DigitOf[s[Len(s)]]

\* str(n) for n >= 0
RECURSIVE ToStr(_)
ToStr(n) == IF n < 10 THEN <<Digits[n + 1]>> ELSE Append(ToStr(n \div 10), Digits[(n % 10) + 1])

\* "%02d" % n
TwoDigits(n) == <<Digits[(n \div 10) + 1], Digits[(n % 10) + 1]>>

\* s.strip()
Strip(s) ==
    LET inside == {i \in DOMAIN s : ~IsSpace(s[i])}
    IN  IF inside = {} THEN <<>>
        ELSE SubSeq(s, CHOOSE i \in inside : \A j \in inside : i <= j,
                       CHOOSE i \in inside : \A j \in inside : i >= j)

\* sub in s
Contains(s, sub) ==
    \E i \in 1 .. (Len(s) - Len(sub) + 1) : SubSeq(s, i, i + Len(sub) - 1) = sub

\* s.replace(" ", "")
RemoveSpaces(s) == SelectSeq(s, LAMBDA c : c # " ")

\* The characters of s at the positions in keep, in order.
RECURSIVE Pick(_, _, _)
Pick(s, keep, i) ==
    IF i > Len(s) THEN <<>>
    ELSE IF i \in keep THEN <<s[i]>> \o Pick(s, keep, i + 1)
    ELSE Pick(s, keep, i + 1)

\* re.sub(r'\s*:\s*', ':', s): the spaces next to a colon go.
NormalizeColons(s) ==
    LET beside(i) == \E j \in DOMAIN s :
                        /\ s[j] = ":"
                        /\ \A k \in DOMAIN s :
                              ((i <= k /\ k < j) \/ (j < k /\ k <= i)) => IsSpace(s[k])
    IN  Pick(s, {i \in DOMAIN s : ~(IsSpace(s[i]) /\ beside(i))}, 1)

\* The position of the first character of s satisfying a test, 0 when none does.
FirstWhere(s, Test(_)) ==
    IF \E i \in DOMAIN s : Test(s[i])
    THEN CHOOSE i \in DOMAIN s : Test(s[i]) /\ \A j \in 1 .. (i - 1) : ~Test(s[j])
    ELSE 0

\* ------------------------------------------------- the library's time parsers
NoTime == [ok |-> FALSE, t |-> 0, tzinfo |-> <<>>]
NaiveTime(t) == [ok |-> TRUE, t |-> t, tzinfo |-> <<>>]
AwareTime(t, utcoffset) == [ok |-> TRUE, t |-> t, tzinfo |-> <<"utcoffset", utcoffset>>]

am == <<"a","m">>
pm == <<"p","m">>

\* datetime.strptime(s, "%I:%M %p").time(): the hour is 1[0-2], 0[1-9] or [1-9],
\* the minute [0-5]\d or \d, then white space, then am or pm, and nothing else.
strptime_I_M_p(s) ==
    LET c == FirstWhere(s, LAMBDA x : x = ":")
        hour == SubSeq(s, 1, c - 1)
        rest == SubSeq(s, c + 1, Len(s))
        stop == FirstWhere(rest, LAMBDA x : ~IsDigit(x))
        minute == SubSeq(rest, 1, stop - 1)
        tail == SubSeq(rest, stop, Len(rest))
        word == Strip(tail)
        h == ToInt(hour)
    IN  IF /\ c > 0
           /\ Len(hour) \in {1, 2} /\ AllDigits(hour) /\ h \in 1 .. 12
           /\ stop > 1
           /\ Len(minute) = 1 \/ (Len(minute) = 2 /\ DigitOf[minute[1]] <= 5)
           /\ IsSpace(tail[1])
           /\ word \in {am, pm}
           /\ SubSeq(tail, Len(tail) - 1, Len(tail)) = word
        THEN NaiveTime(HM((h % 12) + (IF word = pm THEN 12 ELSE 0), ToInt(minute)))
        ELSE NoTime

\* The hours, minutes and seconds of HH, HH:MM, HHMM, HH:MM:SS or HHMMSS.
ParseHMS(s) ==
    LET two(i) == ToInt(SubSeq(s, i, i + 1))
        digits(I) == \A i \in I : IsDigit(s[i])
        no == [ok |-> FALSE, h |-> 0, m |-> 0, s |-> 0]
    IN  CASE Len(s) = 2 /\ digits({1, 2}) ->
                [ok |-> TRUE, h |-> two(1), m |-> 0, s |-> 0]
          [] Len(s) = 4 /\ digits(1 .. 4) ->
                [ok |-> TRUE, h |-> two(1), m |-> two(3), s |-> 0]
          [] Len(s) = 5 /\ digits({1, 2, 4, 5}) /\ s[3] = ":" ->
                [ok |-> TRUE, h |-> two(1), m |-> two(4), s |-> 0]
          [] Len(s) = 6 /\ digits(1 .. 6) ->
                [ok |-> TRUE, h |-> two(1), m |-> two(3), s |-> two(5)]
          [] Len(s) = 8 /\ digits({1, 2, 4, 5, 7, 8}) /\ s[3] = ":" /\ s[6] = ":" ->
                [ok |-> TRUE, h |-> two(1), m |-> two(4), s |-> two(7)]
          [] OTHER -> no

\* time.fromisoformat(s), without fractions of a second: the time, then after a
\* sign the offset from UTC.
fromisoformat(s) ==
    LET z == FirstWhere(s, LAMBDA x : x \in {"+", "-"})
        timestr == IF z > 0 THEN SubSeq(s, 1, z - 1) ELSE s
        tzstr == SubSeq(s, z + 1, Len(s))
        t == ParseHMS(timestr)
        tz == ParseHMS(tzstr)
        utcoffset == (IF s[z] = "-" THEN -1 ELSE 1) * (tz.h * 3600 + tz.m * 60 + tz.s)
    IN  IF ~(t.ok /\ t.h <= 23 /\ t.m <= 59 /\ t.s <= 59) THEN NoTime
        ELSE IF z = 0 THEN NaiveTime(t.h * 3600 + t.m * 60 + t.s)
        ELSE IF tz.ok /\ tz.h <= 23 /\ tz.m <= 59 /\ tz.s <= 59
        THEN AwareTime(t.h * 3600 + t.m * 60 + t.s, utcoffset)
        ELSE NoTime

\* SOLAR_TIME_REGEX.fullmatch(s): \w+, then optionally a sign and digits, then
\* optionally m.  The greedy \w+ takes everything up to the sign, or the whole
\* text when there is none.
SolarMatch(s) ==
    LET z == FirstWhere(s, LAMBDA x : ~IsWord(x))
        event == IF z > 0 THEN SubSeq(s, 1, z - 1) ELSE s
        after == SubSeq(s, z + 1, Len(s))
        number == IF after # <<>> /\ after[Len(after)] = "m"
                  THEN SubSeq(after, 1, Len(after) - 1) ELSE after
        no == [ok |-> FALSE, event |-> <<>>, op |-> "", offset |-> <<>>]
    IN  IF event = <<>> THEN no
        ELSE IF z = 0 THEN [ok |-> TRUE, event |-> event, op |-> "", offset |-> <<>>]
        ELSE IF s[z] \in {"+", "-"} /\ number # <<>> /\ AllDigits(number)
        THEN [ok |-> TRUE, event |-> event, op |-> s[z], offset |-> number]
        ELSE no

\* ------------------------------------------------------- _parse_time_spec
Parsed(spec, tzinfo) == [exc |-> "", spec |-> spec, tzinfo |-> tzinfo]
ParseError == [exc |-> "ValueError", spec |-> Absolute(0), tzinfo |-> <<>>]

\* The branch taken once the text holds am or pm.
ParseTwelveHour(spec) ==
    Bind(strptime_I_M_p(NormalizeColons(spec)), LAMBDA parsed_time :
        IF parsed_time.ok THEN Parsed(Absolute(parsed_time.t), parsed_time.tzinfo)
        ELSE ParseError)

\* The branch taken once the text holds a colon.
ParseTwentyFourHour(spec) ==
    Bind(fromisoformat(RemoveSpaces(spec)), LAMBDA parsed_time :
        IF parsed_time.ok THEN Parsed(Absolute(parsed_time.t), parsed_time.tzinfo)
        ELSE ParseError)

\* The offset of a solar match with its sign dropped.
SolarOffsetUnsigned(match) ==
    IF match.offset = <<>> THEN 0 ELSE ToInt(match.offset)

\* The offset of a solar match: int(offset or 0) * (-1 if op == "-" else 1)
SolarOffset(match) ==
    (IF match.offset = <<>> THEN 0 ELSE ToInt(match.offset))
        * (IF match.op = "-" THEN -1 ELSE 1)

ParseSolar(spec) ==
    Bind(SolarMatch(spec), LAMBDA match :
        IF ~match.ok THEN ParseError
        ELSE IF Lower(match.event) \notin ACCEPTED_SOLAR_EVENTS THEN ParseError
        ELSE Parsed(Solar(Lower(match.event), SolarOffset(match)), <<>>))

\* _parse_time_spec(spec): [exc, spec, tzinfo]
parse_time_spec(spec_orig) ==
    Bind(Lower(Strip(spec_orig)), LAMBDA spec :
        IF Contains(spec, am) \/ Contains(spec, pm) THEN ParseTwelveHour(spec)
        ELSE IF Contains(spec, <<":">>) THEN ParseTwentyFourHour(spec)
        ELSE ParseSolar(spec))

\* The string form with the hour on the twelve-hour clock.
TimeSpecStrTwelveHour(spec) ==
    IF spec.type = "absolute"
    THEN TwoDigits((spec.base \div 3600) % 12) \o <<":">> \o TwoDigits((spec.base \div 60) % 60)
    ELSE spec.base

\* TimeSpec.__str__
TimeSpecStr(spec) ==
    IF spec.type = "absolute"
    THEN TwoDigits((spec.base \div 3600) % 24) \o <<":">> \o TwoDigits((spec.base \div 60) % 60)
    ELSE spec.base \o (IF spec.offset = 0 THEN <<>>
                       ELSE IF spec.offset > 0 THEN <<"+">> \o ToStr(spec.offset)
                       ELSE <<"-">> \o ToStr(-spec.offset))

\* ------------------------------------------------------ texts handed to it
\* Every HH:MM of the day.
ClockText(h, m) == TwoDigits(h) \o <<":">> \o TwoDigits(m)
ClockTexts == {ClockText(h, m) : h \in 0 .. 23, m \in 0 .. 59}

\* Twelve-hour times as the tests write them: "5:30 am".
TwelveHourTexts ==
    {ToStr(h) \o <<":">> \o TwoDigits(m) \o <<" ">> \o half :
        h \in 1 .. 12, m \in {0, 5, 30, 59}, half \in {am, pm, Upper(am), Upper(pm)}}

\* <event>[(+|-)<minutes>[m]] in three spellings of the event.
EventSpellings ==
    UNION {{e, Upper(e), Capitalize(e)} : e \in ACCEPTED_SOLAR_EVENTS}
OffsetMinutes == {0, 5, 30, 90, 120}
SolarText(event, op, minutes, m) ==
    event \o (IF op = "" THEN <<>>
              ELSE <<op>> \o ToStr(minutes) \o (IF m THEN <<"m">> ELSE <<>>))
SolarTexts ==
    {SolarText(e, op, n, m) :
        e \in EventSpellings, op \in {"", "+", "-"}, n \in OffsetMinutes, m \in BOOLEAN}

\* Texts of the parser's tests and others around the edges of the grammar.
OtherTexts ==
    { <<"2","5",":","7","0">>,
      <<"s","u","n","r","i","s","e",":","3","0">>,
      <<"m","i","d","d","a","y","+","5">>,
      <<>>,
      <<"2","4",":","0","0">>,
      <<"0","8",":","6","0">>,
      <<"8",":","3","0">>,
      <<"0","8",":","3","0",":","1","5">>,
      <<"0","8",":","3","0",":","7","5">>,
      <<"5",":","3","0"," ","a","m">>,
      <<"0","8",":","3","0"," ","p","m">>,
      <<"1","2",":","0","0"," ","a","m">>,
      <<"1","2",":","0","5"," ","p","m">>,
      <<"1",":","5"," ","p","m">>,
      <<"1"," ",":"," ","0","5"," "," ","p","m">>,
      <<"0"," ","8"," ",":"," ","3"," ","0">>,
      <<"5",":","3","0","a","m">>,
      <<"5"," ","3","0"," ","p","m">>,
      <<"1","3",":","3","0"," ","p","m">>,
      <<"0",":","3","0"," ","a","m">>,
      <<"1","2",":","3","0"," ","m","a">>,
      <<"m","i","d","d","a","y">>,
      <<"s","u","n","r","i","s","e","+">>,
      <<"d","a","w","n","m">>,
      <<"d","a","w","n","+","m">>,
      <<"d","a","w","n","+","1","5"," ","m">>,
      <<"d","a","w","n"," ","+","1","5">>,
      <<"s","u","n","s","e","t","+","5","m","m">>,
      <<"0","8","3","0">>,
      <<"0","8">>,
      <<"d","u","s","k","+","1","a","m">>,
      <<"8",":","3","0",":">>,
      <<":","3","0">>,
      <<"s","u","n","r","i","s","e","+","3","0",":">>,
      <<"0","8",":","3","0","+","0","5",":","3","0">>,
      <<"0","8",":","3","0","-","0","5","3","0">>,
      <<"0","8",":","3","0","+","0","5">>,
      <<"0","8",":","3","0","+","2","4",":","0","0">>,
      <<" "," ","0","9",":","1","5"," "," ">>,
      <<"i","n","v","a","l","i","d">>,
      <<"n","o","o","n","*","5">>,
      <<"a","m">>,
      <<"p","m"," ","s","u","n","r","i","s","e">> }

TimeSpecTexts == ClockTexts \cup TwelveHourTexts \cup SolarTexts \cup OtherTexts

\* --------------------------------------------- the parser as a state machine
\* The text of a definition, not parsed yet.
InitParse ==
    /\ now = Combine(0, 0)
    /\ sched = EmptySchedule
    /\ calc = NewCalc
    /\ log = <<>>
    /\ failures = {}
    /\ seen = <<>>
    /\ ncalls = 0
    /\ \E text \in TimeSpecTexts : last = [op |-> "text", text |-> text]
    /\ messages = <<>>

\* The call _parse_time_spec(text).
ParseCall ==
    /\ last.op = "text"
    /\ \E r \in {parse_time_spec(last.text)} :
          last' = [op |-> "parse", text |-> last.text, exc |-> r.exc,
                   spec |-> r.spec, tzinfo |-> r.tzinfo]
    /\ UNCHANGED <<now, sched, calc, log, failures, seen, ncalls, messages>>

\* str() of the TimeSpec the call returned.
FormatCall ==
    /\ last.op = "parse" /\ last.exc = ""
    /\ last' = [op |-> "str", text |-> last.text, spec |-> last.spec,
                val |-> TimeSpecStr(last.spec)]
    /\ UNCHANGED <<now, sched, calc, log, failures, seen, ncalls, messages>>

NextParse == ParseCall \/ FormatCall

SpecParse == InitParse /\ [][NextParse]_vars

\* ------------------------------------------------------------------ claims
\* C12: every <event>[(+|-)<minutes>[m]] with one of the six events in any
\* letter case parses to a Solar spec whose base is the lower-cased event and
\* whose offset is +minutes after "+", -minutes after "-" and 0 when there is
\* no sign; and every Absolute spec the parser returns has offset 0.
C12_SolarTextsParse ==
    /\ last.op = "parse" =>
          \A e \in EventSpellings, op \in {"", "+", "-"}, n \in OffsetMinutes, m \in BOOLEAN :
              last.text = SolarText(e, op, n, m) =>
                  /\ last.exc = ""
                  /\ last.spec = [type |-> "solar", base |-> Lower(e),
                                  offset |-> IF op = "+" THEN n
                                             ELSE IF op = "-" THEN 0 - n ELSE 0]
    /\ (last.op = "parse" /\ last.exc = "" /\ last.spec.type = "absolute")
          => last.spec.offset = 0

C12_Witness ==
    /\ last.op = "parse"
    /\ last.text = SolarText(Upper(sunset), "-", 90, TRUE)
    /\ last.spec = [type |-> "solar", base |-> sunset, offset |-> -90]

\* The grammar as the specification states it, read generously: a twelve-hour
\* time is one or two digits, a colon that may have spaces around it, one or
\* two digits, spaces or none, and am or pm; a twenty-four-hour time is
\* HH:MM or HH:MM:SS in range once its spaces are gone; a solar time is
\* <event>[(+|-)<minutes>[m]].
StatedTwelveHour(s) ==
    LET t == RemoveSpaces(s)
        c == FirstWhere(t, LAMBDA x : x = ":")
        n == Len(t)
    IN  /\ c \in {2, 3} /\ n - c \in {3, 4}
        /\ AllDigits(SubSeq(t, 1, c - 1)) /\ AllDigits(SubSeq(t, c + 1, n - 2))
        /\ SubSeq(t, n - 1, n) \in {am, pm}

StatedTwentyFourHour(s) ==
    LET t == RemoveSpaces(s)
        two(i) == ToInt(SubSeq(t, i, i + 1))
    IN  /\ Len(t) \in {5, 8}
        /\ \A i \in DOMAIN t : IF i \in {3, 6} THEN t[i] = ":" ELSE IsDigit(t[i])
        /\ two(1) <= 23 /\ two(4) <= 59
        /\ Len(t) = 8 => two(7) <= 59

StatedSolar(s) ==
    \E e \in DOMAIN StatedFallbacks :
        /\ Len(s) >= Len(e) /\ SubSeq(s, 1, Len(e)) = e
        /\ LET rest == SubSeq(s, Len(e) + 1, Len(s))
               number == SubSeq(rest, 2, Len(rest) - (IF rest[Len(rest)] = "m" THEN 1 ELSE 0))
           IN  rest # <<>> =>
                  /\ rest[1] \in {"+", "-"}
                  /\ number # <<>> /\ AllDigits(number)

InGrammar(text) ==
    LET s == Lower(Strip(text))
    IN  StatedTwelveHour(s) \/ StatedTwentyFourHour(s) \/ StatedSolar(s)

\* C13: the parser fails with a format error, returning no TimeSpec, for every
\* text that is not in the grammar.
C13_RejectsOutsideGrammar ==
    (last.op = "parse" /\ ~InGrammar(last.text)) => last.exc = "ValueError"

\* C14: for every HH:MM with HH in 0..23 and MM in 0..59, the string form of the
\* spec parsed from it is the same HH:MM.
C14_ClockRoundTrip ==
    last.op = "str" =>
        \A h \in 0 .. 23, m \in 0 .. 59 :
            last.text = ClockText(h, m) =>
                /\ last.spec = [type |-> "absolute", base |-> HM(h, m), offset |-> 0]
                /\ last.val = last.text

C14_Witness ==
    /\ last.op = "str"
    /\ last.text = ClockText(23, 59)
    /\ last.val = last.text

\* ======================================================== validation results
\* ------------------------------------------------------- ValidationResult
\* A ValidationResult is its list of messages, each [check, level, message].
add(msgs, check, level, message) ==
    Append(msgs, [check |-> check, level |-> level, message |-> message])

remove(msgs, check) == SelectSeq(msgs, LAMBDA msg : msg.check # check)

merge(msgs, other) == msgs \o other

\* The messages of one level grouped by check, as the defaultdict holds them:
\* a key for each check that has such a message, its texts in order.
Bucket(msgs, level) ==
    [check \in {msgs[i].check : i \in {j \in DOMAIN msgs : msgs[j].level = level}} |->
        LET mine == SelectSeq(msgs, LAMBDA msg : msg.level = level /\ msg.check = check)
        IN  [i \in DOMAIN mine |-> mine[i].message]]

\* Every message counted as an error, whatever its level.
errors_of_any_level(msgs) ==
    [check \in {msgs[i].check : i \in DOMAIN msgs} |->
        LET mine == SelectSeq(msgs, LAMBDA msg : msg.check = check)
        IN  [i \in DOMAIN mine |-> mine[i].message]]

errors(msgs) == Bucket(msgs, "error")

warnings(msgs) == Bucket(msgs, "warning")

passed(msgs) == Cardinality(DOMAIN errors(msgs)) = 0

failed(msgs) == Cardinality(DOMAIN errors(msgs)) > 0

\* ------------------------------------------------------ coverage analysis
\* The analysis handles values of two Python types: datetime.time and
\* datetime.datetime.  v is seconds since midnight, or since day 0.
Time(v) == [kind |-> "time", v |-> v]
Datetime(v) == [kind |-> "datetime", v |-> v]
LastSecond == Time(HM(23, 59) + 59)

\* datetime.combine(date.today(), t): t has to be a datetime.time.
combine(t) == IF t.kind = "time" THEN Returned(t.v) ELSE Raised("TypeError")

\* blocks.sort(key=lambda x: x[1]): a stable sort by start.
InsertByStart(sorted, b) ==
    LET k == Cardinality({i \in DOMAIN sorted : sorted[i].start.v <= b.start.v})
    IN  SubSeq(sorted, 1, k) \o <<b>> \o SubSeq(sorted, k + 1, Len(sorted))
RECURSIVE SortByStart(_)
SortByStart(blocks) ==
    IF blocks = <<>> THEN <<>>
    ELSE InsertByStart(SortByStart(SubSeq(blocks, 1, Len(blocks) - 1)), blocks[Len(blocks)])

\* "Handle blocks crossing midnight": an end not after its start becomes 23:59:59.
CrossingEnd(start, end) == IF end.v <= start.v THEN LastSecond ELSE end

Analysed(exc, msgs) == [exc |-> exc, messages |-> msgs]

\* The body of the loop over consecutive blocks.
PairCheck(msgs, current, next) ==
    Bind(combine(CrossingEnd(current.start, current.end)), LAMBDA current_end_dt :
    Bind(combine(next.start), LAMBDA next_start_dt :
        IF current_end_dt.exc # "" THEN Analysed(current_end_dt.exc, msgs)
        ELSE IF next_start_dt.exc # "" THEN Analysed(next_start_dt.exc, msgs)
        ELSE IF current_end_dt.val - next_start_dt.val > 1
        THEN Analysed("", add(msgs, "schedule_overlap", "warning",
                 <<"Timeblock overlap detected", current.name, next.name,
                   current_end_dt.val - next_start_dt.val>>))
        ELSE IF next_start_dt.val - current_end_dt.val > 1
        THEN Analysed("", add(msgs, "schedule_gap", "warning",
                 <<"Gap detected between", current.name, next.name,
                   next_start_dt.val - current_end_dt.val>>))
        ELSE Analysed("", msgs)))

\* for i in range(len(blocks) - 1)
RECURSIVE PairsLoop(_, _, _)
PairsLoop(blocks, i, msgs) ==
    IF i > Len(blocks) - 1 THEN Analysed("", msgs)
    ELSE Bind(PairCheck(msgs, blocks[i], blocks[i + 1]), LAMBDA r :
             IF r.exc # "" THEN r ELSE PairsLoop(blocks, i + 1, r.messages))

\* "Check circular coverage (last block to first block)"
CircularCheck(blocks, msgs) ==
    LET first == blocks[1]
        last_block == blocks[Len(blocks)]
    IN  Bind(combine(CrossingEnd(last_block.start, last_block.end)), LAMBDA last_end_dt :
        Bind(combine(first.start), LAMBDA first_start_dt :
            IF last_end_dt.exc # "" THEN Analysed(last_end_dt.exc, msgs)
            ELSE IF first_start_dt.exc # "" THEN Analysed(first_start_dt.exc, msgs)
            ELSE IF first_start_dt.val - last_end_dt.val > 1
            THEN Analysed("", add(msgs, "schedule_gap", "warning",
                     <<"Gap detected between end of last block and start of first block",
                       first_start_dt.val - last_end_dt.val>>))
            ELSE Analysed("", msgs)))

\* The coverage of one block in seconds; a block whose end is not after its
\* start counts from the start to 23:59:59 and from 00:00 to the end.
BlockCoverage(b) ==
    IF b.end.v <= b.start.v
    THEN (combine(LastSecond).val - combine(b.start).val) + (combine(b.end).val - 0)
    ELSE combine(b.end).val - combine(b.start).val

RECURSIVE TotalCoverage(_)
TotalCoverage(blocks) ==
    IF blocks = <<>> THEN 0
    ELSE TotalCoverage(SubSeq(blocks, 1, Len(blocks) - 1)) + BlockCoverage(blocks[Len(blocks)])

\* abs(total_hours - 24.0) > 0.1 in floating point holds from six minutes on:
\* 23.9 and 24.1 are not exactly representable and differ from 24.0 by more
\* than 0.1.
CoverageCheck(blocks, msgs) ==
    IF \E i \in DOMAIN blocks : combine(blocks[i].start).exc # "" \/ combine(blocks[i].end).exc # ""
    THEN Analysed("TypeError", msgs)
    ELSE Bind(TotalCoverage(blocks), LAMBDA total_coverage :
        IF total_coverage - DaySeconds >= 360 \/ DaySeconds - total_coverage >= 360
        THEN Analysed("", add(msgs, "schedule_coverage", "warning",
                 <<IF total_coverage < DaySeconds THEN "Schedule covers hours out of 24"
                   ELSE "Schedule covers hours (exceeds 24 hours)", total_coverage>>))
        ELSE Analysed("", msgs))

\* The analysis of the sorted blocks: pairs, wraparound, total.
AnalyzeSorted(blocks, msgs) ==
    Bind(PairsLoop(blocks, 1, msgs), LAMBDA pairs :
        IF pairs.exc # "" THEN pairs
        ELSE Bind(CircularCheck(blocks, pairs.messages), LAMBDA circular :
            IF circular.exc # "" THEN circular
            ELSE CoverageCheck(blocks, circular.messages)))

\* Validator._analyze_time_coverage(blocks, result): blocks of (name, time, time)
Validator_analyze_time_coverage(blocks, msgs) ==
    AnalyzeSorted(SortByStart(blocks), msgs)

\* --------------------------------------------------------- ScheduleValidator
\* The pack directory: the set of image files that exist in it.
Exists(pack, img) == img \in pack

\* not global_location
Falsy(location) ==
    \/ location.kind = "None"
    \/ location.kind = "dict" /\ DOMAIN location.items = {}

\* One error for each image of the entries that is not in the pack.
RECURSIVE ImageErrors(_, _, _, _)
ImageErrors(entries, pack, text, msgs) ==
    IF entries = <<>> THEN msgs
    ELSE LET images == Head(entries).images
             missing == SelectSeq(images, LAMBDA img : ~Exists(pack, img))
             mine == [i \in DOMAIN missing |->
                         [check |-> "schedule_images", level |-> "error",
                          message |-> <<text, missing[i]>>]]
         IN  ImageErrors(Tail(entries), pack, text, msgs \o mine)

\* ScheduleValidator._validate_timeblocks
validate_timeblocks(schedule, pack, global_location, msgs) ==
    LET has_solar == \E i \in DOMAIN schedule.timeblocks :
                        \/ schedule.timeblocks[i].start.type = "solar"
                        \/ schedule.timeblocks[i].end.type = "solar"
        warned == IF has_solar /\ Falsy(global_location)
                  THEN add(msgs, "schedule_solar", "warning",
                           <<"Solar timeblocks without global location data will use fallback times">>)
                  ELSE msgs
    IN  ImageErrors(schedule.timeblocks, pack, "Image not found in pack", warned)

\* ScheduleValidator._validate_days
validate_days(schedule, pack, msgs) ==
    ImageErrors(schedule.days, pack, "Day image not found in pack", msgs)

\* The first loop of the analysis: every block resolved on the test date, an
\* end not after its start moved to the next day.  [exc, blocks, cx]
RECURSIVE ResolveForCoverage(_, _, _, _, _)
ResolveForCoverage(cx, timeblocks, test_date, location, acc) ==
    IF timeblocks = <<>> THEN [exc |-> "", blocks |-> acc, cx |-> cx]
    ELSE LET block == Head(timeblocks) IN
         Bind(resolve_datetime(cx, block.start, test_date, location), LAMBDA s :
         IF s.exc # "" THEN [exc |-> s.exc, blocks |-> acc, cx |-> s.cx]
         ELSE Bind(resolve_datetime(s.cx, block.end, test_date, location), LAMBDA e :
         IF e.exc # "" THEN [exc |-> e.exc, blocks |-> acc, cx |-> e.cx]
         ELSE ResolveForCoverage(e.cx, Tail(timeblocks), test_date, location,
                  Append(acc, [name |-> block.name, start |-> Datetime(s.val),
                               end |-> Datetime(IF e.val <= s.val
                                                THEN e.val + DaySeconds ELSE e.val)]))))

\* ScheduleValidator._analyze_time_coverage: [exc, messages, cx].  Its last
\* statement reads self.test_results, which a ScheduleValidator does not have.
analyze_time_coverage(cx, schedule, global_location, msgs, today) ==
    IF schedule.timeblocks = <<>> THEN [exc |-> "", messages |-> msgs, cx |-> cx]
    ELSE Bind(ResolveForCoverage(cx, schedule.timeblocks, today, global_location, <<>>),
              LAMBDA resolved :
         IF resolved.exc # ""
         THEN [exc |-> resolved.exc, messages |-> msgs, cx |-> resolved.cx]
         ELSE Bind(AnalyzeSorted(SortByStart(resolved.blocks), msgs), LAMBDA r :
              [exc |-> IF r.exc # "" THEN r.exc ELSE "AttributeError",
               messages |-> r.messages, cx |-> resolved.cx]))

\* ScheduleValidator.validate(schedule, pack_path, global_location):
\* [exc, messages, cx]
validate(cx, schedule, pack, global_location, today) ==
    IF schedule.type = "timeblocks"
    THEN IF schedule.timeblocks = <<>>
         THEN [exc |-> "", cx |-> cx,
               messages |-> add(<<>>, "schedule_timeblocks", "error",
                                <<"Timeblock schedule must contain at least one timeblock">>)]
         ELSE analyze_time_coverage(cx, schedule, global_location,
                  validate_timeblocks(schedule, pack, global_location, <<>>), today)
    ELSE IF schedule.days = <<>>
         THEN [exc |-> "", cx |-> cx,
               messages |-> add(<<>>, "schedule_days", "error",
                                <<"Day-based schedule must contain at least one day entry">>)]
         ELSE [exc |-> "", cx |-> cx, messages |-> validate_days(schedule, pack, <<>>)]

\* ------------------------------------- ScheduleValidator as a state machine
\* The image files of a schedule; the pack holds all of them or none.
FilesOf(schedule) ==
    UNION ({{schedule.timeblocks[i].images[k] : k \in DOMAIN schedule.timeblocks[i].images} :
               i \in DOMAIN schedule.timeblocks}
           \cup {{schedule.days[i].images[k] : k \in DOMAIN schedule.days[i].images} :
               i \in DOMAIN schedule.days})
Packs(schedule) == {FilesOf(schedule), {}}

InitValidate ==
    /\ now \in {Combine(0, 0), Combine(1, HM(12, 0))}
    /\ sched \in Schedules
    /\ calc = NewCalc
    /\ log = <<>>
    /\ failures = {}
    /\ seen = <<>>
    /\ ncalls = 0
    /\ last = NoCall
    /\ messages = <<>>

\* validator.validate(schedule, pack_path, global_location); when it raises,
\* messages holds what had been added to the result by then.
ValidateCall ==
    /\ last = NoCall
    /\ \E location \in Locations, pack \in Packs(sched) :
         \E r \in {validate(Cx, sched, pack, location, DateOf(now))} :
             /\ SetCx(r.cx)
             /\ messages' = r.messages
             /\ last' = [op |-> "validate", location |-> location, pack |-> pack,
                         exc |-> r.exc]
    /\ UNCHANGED <<now, sched, seen, ncalls>>

NextValidate == ValidateCall

SpecValidate == InitValidate /\ [][NextValidate]_vars

\* -------------------------- Validator's coverage analysis as a state machine
\* Lists of one and two blocks between these times of day, and the three
\* blocks of a full day.
CoverageTimes == {HM(0, 0), HM(6, 0), HM(10, 0), HM(10, 1), HM(12, 0), HM(16, 0), HM(23, 0)}
CoverageBlock(name, start, end) == [name |-> name, start |-> Time(start), end |-> Time(end)]
CoverageBlocks ==
    {<<CoverageBlock("A", s, e)>> : s, e \in CoverageTimes}
    \cup {<<CoverageBlock("A", s1, e1), CoverageBlock("B", s2, e2)>> :
             s1, e1, s2, e2 \in CoverageTimes}
    \cup {<<CoverageBlock("A", HM(8, 0), HM(12, 0)), CoverageBlock("B", HM(11, 0), HM(15, 0))>>,
          <<CoverageBlock("C", HM(16, 0), HM(0, 0)), CoverageBlock("A", HM(0, 0), HM(8, 0)),
            CoverageBlock("B", HM(8, 0), HM(16, 0))>>}

InitCoverage ==
    /\ now = Combine(0, 0)
    /\ sched = EmptySchedule
    /\ calc = NewCalc
    /\ log = <<>>
    /\ failures = {}
    /\ seen = <<>>
    /\ ncalls = 0
    /\ last = NoCall
    /\ messages = <<>>

\* self._analyze_time_coverage(blocks, result) of Validator.validate_schedule
AnalyzeCoverageCall ==
    /\ last = NoCall
    /\ \E blocks \in CoverageBlocks :
         \E r \in {Validator_analyze_time_coverage(blocks, messages)} :
             /\ messages' = r.messages
             /\ last' = [op |-> "analyze", blocks |-> blocks, exc |-> r.exc]
    /\ UNCHANGED <<now, sched, calc, log, failures, seen, ncalls>>

NextCoverage == AnalyzeCoverageCall

SpecCoverage == InitCoverage /\ [][NextCoverage]_vars

\* ------------------------------------------------------------------ claims
\* A warning of a check whose message begins with these parts is stored.
Warned(check, parts) ==
    \E i \in DOMAIN messages :
        /\ messages[i].check = check /\ messages[i].level = "warning"
        /\ Len(messages[i].message) >= Len(parts)
        /\ SubSeq(messages[i].message, 1, Len(parts)) = parts

\* The blocks of the schedule in start order, resolved on the test date.
InStartOrder(schedule, location, d) ==
    SortByStart([i \in DOMAIN schedule.timeblocks |->
        [name |-> schedule.timeblocks[i].name,
         start |-> Datetime(AnchorStart(schedule.timeblocks[i], d, location)),
         end |-> Datetime(AnchorEnd(schedule.timeblocks[i], d, location))]])

\* C15: validating a Timeblocks schedule stores an overlap warning naming both
\* blocks for every pair adjacent in start order whose earlier end is later
\* than the next start, and a total-coverage warning when the durations do not
\* sum to 24 hours (by six minutes or more).
C15_OverlapAndCoverageWarnings ==
    (last.op = "validate" /\ sched.type = "timeblocks" /\ sched.timeblocks # <<>>) =>
        LET blocks == InStartOrder(sched, last.location, DateOf(now))
            total == TotalCoverage([i \in DOMAIN blocks |->
                         [start |-> Time(0), end |-> Time(blocks[i].end.v - blocks[i].start.v)]])
        IN  /\ \A i \in 1 .. (Len(blocks) - 1) :
                  blocks[i].end.v > blocks[i + 1].start.v =>
                      Warned("schedule_overlap",
                             <<"Timeblock overlap detected", blocks[i].name, blocks[i + 1].name>>)
            /\ (total - DaySeconds >= 360 \/ DaySeconds - total >= 360) =>
                  \E i \in DOMAIN messages : messages[i].check = "schedule_coverage"

\* C16: the analysis stores a gap warning for every pair adjacent in start
\* order, and for the last block against the first block's start a day later,
\* whose gap exceeds one minute, and none for a pair whose gap does not.
C16_GapWarnings ==
    last.op = "analyze" =>
        LET blocks == SortByStart(last.blocks)
            n == Len(blocks)
            End(b) == IF b.end.v <= b.start.v THEN b.end.v + DaySeconds ELSE b.end.v
        IN  /\ \A i \in 1 .. (n - 1) :
                  LET gap == blocks[i + 1].start.v - End(blocks[i])
                      warned == Warned("schedule_gap",
                                    <<"Gap detected between", blocks[i].name, blocks[i + 1].name>>)
                  IN  (gap > 60 => warned) /\ (gap <= 60 => ~warned)
            /\ LET gap == blocks[1].start.v + DaySeconds - End(blocks[n])
                   warned == Warned("schedule_gap",
                       <<"Gap detected between end of last block and start of first block">>)
               IN  (gap > 60 => warned) /\ (gap <= 60 => ~warned)

\* C17: for a Timeblocks schedule with at least one block and any location the
\* validation completes without raising, and every message of the coverage
\* checks is a warning.
C17_CoverageNeverRaises ==
    (last.op = "validate" /\ sched.type = "timeblocks" /\ sched.timeblocks # <<>>) =>
        /\ last.exc = ""
        /\ \A i \in DOMAIN messages :
              messages[i].check \in {"schedule_overlap", "schedule_gap", "schedule_coverage"}
                  => messages[i].level = "warning"

\* ------------------------------------ ValidationResult as a state machine
ResultChecks == {"schedule_gap", "images"}
ResultLevels == {"error", "warning"}
ResultTexts == {"first", "second"}
ResultMessages ==
    [check : ResultChecks, level : ResultLevels, message : ResultTexts]
\* The results merged in: one or two messages.
OtherResults ==
    {<<m>> : m \in ResultMessages} \cup {<<m, n>> : m, n \in ResultMessages}

InitResult ==
    /\ now = Combine(0, 0)
    /\ sched = EmptySchedule
    /\ calc = NewCalc
    /\ log = <<>>
    /\ failures = {}
    /\ seen = <<>>
    /\ ncalls = 0
    /\ last = NoCall
    /\ messages = <<>>

\* result.add(check, level, message)
AddCall ==
    /\ Len(messages) < MaxMessages
    /\ \E m \in ResultMessages :
         /\ messages' = add(messages, m.check, m.level, m.message)
         /\ last' = [op |-> "add", removed |-> 0]
    /\ UNCHANGED <<now, sched, calc, log, failures, seen, ncalls>>

\* result.remove(check)
RemoveCall ==
    /\ \E check \in ResultChecks :
         /\ messages' = remove(messages, check)
         /\ last' = [op |-> "remove", removed |-> Len(messages) - Len(messages')]
    /\ UNCHANGED <<now, sched, calc, log, failures, seen, ncalls>>

\* result.merge(other)
MergeCall ==
    /\ \E other \in OtherResults :
         /\ Len(messages) + Len(other) <= MaxMessages
         /\ messages' = merge(messages, other)
         /\ last' = [op |-> "merge", removed |-> 0]
    /\ UNCHANGED <<now, sched, calc, log, failures, seen, ncalls>>

NextResult == AddCall \/ RemoveCall \/ MergeCall

SpecResult == InitResult /\ [][NextResult]_vars

\* ------------------------------------------------------------------ claims
\* How often a text stands in the bucket of a check.
InBucket(bucket, check, text) ==
    IF check \in DOMAIN bucket
    THEN Cardinality({i \in DOMAIN bucket[check] : bucket[check][i] = text})
    ELSE 0

\* How many stored messages have this check, level and text.
Stored(check, level, text) ==
    Cardinality({i \in DOMAIN messages :
        messages[i] = [check |-> check, level |-> level, message |-> text]})

\* C18: after any adds, removes and merges, passed holds exactly when no
\* stored message has level error, failed is its negation, warnings alone
\* never fail the result, and the error and warning buckets hold, under each
\* check, exactly the stored messages of their level and check.
C18_PassedIffNoErrors ==
    /\ passed(messages) <=> \A i \in DOMAIN messages : messages[i].level # "error"
    /\ failed(messages) <=> ~passed(messages)
    /\ (\A i \in DOMAIN messages : messages[i].level = "warning") => ~failed(messages)
    /\ \A check \in ResultChecks, text \in ResultTexts :
          /\ InBucket(errors(messages), check, text) = Stored(check, "error", text)
          /\ InBucket(warnings(messages), check, text) = Stored(check, "warning", text)
    /\ DOMAIN errors(messages) \cup DOMAIN warnings(messages) \subseteq ResultChecks

C18_Witness ==
    /\ last.op = "remove" /\ last.removed > 0
    /\ messages # <<>>
    /\ passed(messages)
    /\ DOMAIN warnings(messages) # {}

\* ------------------------------------------------------------------ claims
\* The schedule with every day key written in lower case.
LowerKeyed(schedule) ==
    [schedule EXCEPT !.days = [i \in DOMAIN @ |-> [@[i] EXCEPT !.key = Lower(@)]]]

\* C19: for a Days schedule, get_wallpaper returns what it would return were
\* every day key written in lower case.
C19_DayKeysIgnoreCase ==
    (last.op = "get_wallpaper" /\ sched.type = "days") =>
        LET r == get_wallpaper(NewCx, LowerKeyed(sched), last.location,
                               last.include_time, last.get_next, last.now)
        IN  /\ last.exc = r.exc
            /\ last.tag = r.tag
            /\ last.image = r.image
            /\ last.start = r.start /\ last.end = r.end

\* C20: for a non-shuffled current block with n images, window [start, end)
\* holding now and end - now >= (end - start) / n, get_wallpaper (next) returns
\* images[(i + 1) mod n], i the current image's index, and with the times the
\* window of that index: from start + ((i + 1) mod n) * d for d = (end - start) / n.
C20_NextImageInBlock ==
    (IsGetWallpaper(TRUE) /\ sched.type = "timeblocks") =>
        LET b == CurrentBlock.block
            d == WindowDate(b, last.now, last.location)
            start == AnchorStart(b, d, last.location)
            end == AnchorEnd(b, d, last.location)
            n == Len(b.images)
            next_index == (SequentialIndex(b, last.now, start, end) + 1) % n
            image_start == start + (next_index * (end - start)) \div n
        IN  ( /\ CurrentBlock.found
              /\ n >= 1 /\ ~b.shuffle
              /\ InAnchor(b, d, last.now, last.location)
              /\ (end - last.now) * n >= end - start )
            => /\ last.exc = ""
               /\ last.tag \in {"path", "tuple"}
               /\ last.image = b.images[1 + next_index]
               /\ last.tag = "tuple" =>
                     /\ last.start = image_start
                     /\ last.end = image_start + (end - start) \div n

\* C20 witness: in a sequential block of three images that began the day
\* before, the next image is the third, with its window.
C20_Witness ==
    /\ IsGetWallpaper(TRUE) /\ sched.type = "timeblocks"
    /\ CurrentBlock.found
    /\ ~CurrentBlock.block.shuffle
    /\ Len(CurrentBlock.block.images) = 3
    /\ WindowDate(CurrentBlock.block, last.now, last.location) = DateOf(last.now) - 1
    /\ InAnchor(CurrentBlock.block, DateOf(last.now) - 1, last.now, last.location)
    /\ last.tag = "tuple"
    /\ last.image = CurrentBlock.block.images[3]
    /\ last.start <= last.now + 3600 /\ last.now < last.start

\* The block a calculator fresh from construction would name as next.
NextBlock == get_block(NewCx, sched, last.location, TRUE, last.now)

\* Less than one per-image duration remains in the current block's window.
LittleRemains ==
    LET b == CurrentBlock.block
        d == WindowDate(b, last.now, last.location)
        start == AnchorStart(b, d, last.location)
        end == AnchorEnd(b, d, last.location)
    IN  /\ CurrentBlock.found
        /\ Len(b.images) >= 1
        /\ InAnchor(b, d, last.now, last.location)
        /\ (end - last.now) * Len(b.images) < end - start

\* C21: when less than one per-image duration remains in the current block,
\* get_wallpaper (next) returns the first image of the next block with that
\* block's own window; when no block starts later today it wraps (to the block
\* get_block names, or the first one defined) with the window on the next
\* calendar day.
C21_NextBlockFirstImage ==
    (IsGetWallpaper(TRUE) /\ sched.type = "timeblocks") =>
        LET today == StartsOn(DateOf(last.now), last.location)
            later == {i \in DOMAIN today : today[i] > last.now}
            anchor == IF later # {} THEN DateOf(last.now) ELSE DateOf(last.now) + 1
            candidates == IF later # {} THEN {NextBlock.block}
                          ELSE {NextBlock.block, sched.timeblocks[1]}
        IN  (LittleRemains /\ NextBlock.found /\ NextBlock.block.images # <<>>) =>
               /\ last.exc = ""
               /\ last.tag \in {"path", "tuple"}
               /\ \E c \in candidates :
                     /\ c.images # <<>>
                     /\ last.image = c.images[1]
                     /\ last.tag = "tuple" =>
                           /\ last.start = AnchorStart(c, anchor, last.location)
                           /\ last.end = AnchorEnd(c, anchor, last.location)

\* C22: for a Days schedule whose entry for now's weekday is not shuffled and
\* has n images, current index i: get_wallpaper (next) returns today's image
\* i + 1 when i < n - 1, and when i = n - 1 the first image of the following
\* weekday's entry, or of the first weekday defined when there is none.
C22_NextDayImage ==
    (IsGetWallpaper(TRUE) /\ sched.type = "days" /\ sched.days # <<>>) =>
        LET today == DayName(DateOf(last.now))
            tomorrow == DayName(DateOf(last.now) + 1)
            entry == DayEntry(sched.days, today)
            n == Len(entry.images)
            i == ((last.now - Combine(DateOf(last.now), 0)) * n) \div DaySeconds
        IN  (HasImages(sched.days, today) /\ ~entry.shuffle) =>
               /\ last.exc = ""
               /\ last.tag \in {"path", "tuple"}
               /\ last.image =
                     IF i < n - 1 THEN entry.images[i + 2]
                     ELSE IF HasDay(sched.days, tomorrow)
                     THEN DayEntry(sched.days, tomorrow).images[1]
                     ELSE sched.days[1].images[1]

\* C23: for a shuffled current block in which at least one per-image duration
\* remains, get_wallpaper (next) returns the block's first image with the window
\* from now to the block's end.
C23_ShuffledNextRemainingSpan ==
    (IsGetWallpaper(TRUE) /\ sched.type = "timeblocks" /\ CurrentBlock.found) =>
        LET b == CurrentBlock.block
            d == WindowDate(b, last.now, last.location)
            start == AnchorStart(b, d, last.location)
            end == AnchorEnd(b, d, last.location)
        IN  (/\ b.shuffle
             /\ Len(b.images) >= 1
             /\ InAnchor(b, d, last.now, last.location)
             /\ (end - last.now) * Len(b.images) >= end - start) =>
                /\ last.exc = ""
                /\ last.tag \in {"path", "tuple"}
                /\ last.image = b.images[1]
                /\ last.tag = "tuple" => (last.start = last.now /\ last.end = end)

\* C24: whenever get_wallpaper (current, with time window) returns an image, the
\* returned window contains now: windowStart <= now < windowEnd.
C24_CurrentWindowHoldsNow ==
    (IsGetWallpaper(FALSE) /\ last.tag = "tuple") =>
        (last.start <= last.now /\ last.now < last.end)

\* C25: whenever get_wallpaper (next, with time window) returns an image, the
\* returned window does not start before now: windowStart >= now.
C25_NextWindowNotBegun ==
    (IsGetWallpaper(TRUE) /\ last.tag = "tuple") => last.start >= last.now

\* C26: get_block and get_wallpaper agree on the current block: if get_block
\* (current) returns a block with at least one image then get_wallpaper
\* (current) returns an image of that block, never none.
C26_WallpaperOfCurrentBlock ==
    (/\ IsGetWallpaper(FALSE)
     /\ sched.type = "timeblocks"
     /\ CurrentBlock.found
     /\ CurrentBlock.block.images # <<>>) =>
        /\ last.exc = ""
        /\ last.tag \in {"path", "tuple"}
        /\ \E k \in DOMAIN CurrentBlock.block.images :
              last.image = CurrentBlock.block.images[k]

\* C27: a block is recognised as current for every instant of its interval,
\* whichever date the interval is anchored on: if now lies in some block's
\* [start, end) resolved on now's date or on the previous date, get_block
\* (current) returns some block.
C27_BlockFoundInsideInterval ==
    (/\ IsGetBlock(FALSE)
     /\ sched.type = "timeblocks"
     /\ Containing(last.now, last.location) # {}) =>
        (last.exc = "" /\ last.found)

\* ------------------------------------------------- rotation through a block
\* The periodic invocation the engine is written for: the same schedule and
\* location are asked for the current wallpaper at each instant the clock shows.
\* `seen` keeps the answers at the previous instant and at this one.
RotationSchedules ==
    {s \in Schedules : s.type = "timeblocks" /\ s.timeblocks # <<>>}

InitRotation ==
    /\ now = Combine(0, HM(0, 0))
    /\ sched \in RotationSchedules
    /\ calc = NewCalc
    /\ log = <<>>
    /\ failures = {}
    /\ seen = <<>>
    /\ ncalls = 0
    /\ \E location \in Locations : last = [op |-> "tick", location |-> location]
    /\ messages = <<>>

\* manager.get_wallpaper(schedule, global_location, include_time=True)
ShowCall ==
    /\ last.op = "tick"
    /\ \E r \in {get_wallpaper(Cx, sched, last.location, TRUE, FALSE, now)} :
         /\ SetCx(r.cx)
         /\ last' = [op |-> "get_wallpaper", location |-> last.location,
                     warm |-> calc.cache # <<>>,
                     include_time |-> TRUE, get_next |-> FALSE,
                     now |-> now, exc |-> r.exc, tag |-> r.tag, image |-> r.image,
                     start |-> r.start, end |-> r.end]
         /\ seen' = IF seen = <<>> THEN <<last'>> ELSE <<seen[Len(seen)], last'>>
    /\ UNCHANGED <<now, sched, ncalls, messages>>

\* Time passes until the next invocation.
RotationTick ==
    /\ last.op = "get_wallpaper"
    /\ \E t \in Instants :
         /\ t > now
         /\ \A u \in Instants : u > now => t <= u
         /\ now' = t
    /\ last' = [op |-> "tick", location |-> last.location]
    /\ UNCHANGED <<sched, calc, log, failures, seen, ncalls, messages>>

NextRotation == ShowCall \/ RotationTick

SpecRotation == InitRotation /\ [][NextRotation]_vars

\* A block in rotation at t: not shuffled, with images, and the first block
\* defined whose interval holds t.
Rotating(t, location) ==
    /\ Containing(t, location) # {}
    /\ ~sched.timeblocks[FirstOf(Containing(t, location))].shuffle
    /\ sched.timeblocks[FirstOf(Containing(t, location))].images # <<>>
\* The index of the image an answer reports, -1 when it reports none of b's.
ReportedIndex(b, answer) ==
    IF answer.tag = "tuple" /\ \E k \in DOMAIN b.images : b.images[k] = answer.image
    THEN (CHOOSE k \in DOMAIN b.images : b.images[k] = answer.image) - 1
    ELSE -1

\* C28: as now advances through the interval of a non-shuffled block, the index
\* get_wallpaper (current) reports is 0 at the start, never decreases, increases
\* only by 1 and reaches n - 1 before the end, index k being reported exactly
\* over [start + k * (end - start) / n, start + (k + 1) * (end - start) / n).
C28_SequentialRotation ==
    (seen # <<>> /\ Rotating(seen[Len(seen)].now, seen[Len(seen)].location)) =>
        LET answer == seen[Len(seen)]
            b == sched.timeblocks[FirstOf(Containing(answer.now, answer.location))]
            d == AnchorDate(b, answer.now, answer.location)
            start == AnchorStart(b, d, answer.location)
            end == AnchorEnd(b, d, answer.location)
            n == Len(b.images)
            k == ReportedIndex(b, answer)
        IN  /\ answer.exc = ""
            /\ k \in 0..(n - 1)
            /\ start * n + k * (end - start) <= answer.now * n
            /\ answer.now * n < start * n + (k + 1) * (end - start)
            /\ (/\ Len(seen) = 2
                /\ start <= seen[1].now
                /\ Rotating(seen[1].now, answer.location)
                /\ b = sched.timeblocks[FirstOf(Containing(seen[1].now, answer.location))])
               => ReportedIndex(b, seen[1]) \in {k - 1, k}

\* The computation a cache key stands for succeeds with this value.
ComputedFor(key, value) ==
    \/ key[1] = midnight /\ value = HM(0, 0)
    \/ /\ key[5] \in KnownTimezones
       /\ key[3] > -66 /\ key[3] < 66
       /\ key[1] \in DOMAIN SunTimes[key[2]]
       /\ value = SunTimes[key[2]][key[1]]
\* The cache after the last call is the cache before it.
CacheUnchanged == calc.cache = last.cache_before
\* The cache after the last call is the cache before it and one new entry.
CacheGrewBy(key) ==
    /\ key \notin DOMAIN last.cache_before
    /\ DOMAIN calc.cache = DOMAIN last.cache_before \cup {key}
    /\ \A k \in DOMAIN last.cache_before : calc.cache[k] = last.cache_before[k]

\* C29: after any sequence of resolve_time and resolve_datetime calls the cache
\* holds entries only for successful location-based computations: a call with
\* no location, a resolve_datetime call on an Absolute spec, a cache hit and a
\* call whose computation fails each leave the cache unchanged, and a fallback
\* returned after a failure is never stored.
C29_CacheOnlySuccessfulComputations ==
    /\ \A key \in DOMAIN calc.cache : ComputedFor(key, calc.cache[key])
    /\ last.op = "resolve_time" =>
          /\ (last.location.kind = "None" \/ last.hit \/ last.failed # "" \/ last.exc # "")
                => CacheUnchanged
          /\ ~CacheUnchanged => CacheGrewBy(LastKey)
    /\ last.op = "resolve_datetime" =>
          /\ (last.spec.type = "absolute" \/ last.location.kind = "None" \/ last.exc # "")
                => CacheUnchanged
          /\ ~CacheUnchanged =>
                CacheGrewBy(CacheKey(Lower(last.spec.base), last.date,
                                     convert_location(last.location)))

\* C29 witness: with entries already in the cache, a computation fails, its
\* fallback is returned and the cache is as it was.
C29_Witness ==
    /\ last.op = "resolve_time"
    /\ last.failed # ""
    /\ last.exc = ""
    /\ Lower(last.event) \in DOMAIN SOLAR_FALLBACKS
    /\ last.val = SOLAR_FALLBACKS[Lower(last.event)]
    /\ last.cache_before # <<>>
    /\ calc.cache = last.cache_before

\* ================================================= the validator's parser
\* validate.py keeps its own table of the solar events and their fallbacks.
VALIDATOR_SOLAR_FALLBACKS ==
    (sunrise :> HM(6, 0)) @@ (sunset :> HM(18, 0)) @@ (dawn :> HM(5, 30)) @@
    (dusk :> HM(18, 30)) @@ (noon :> HM(12, 0)) @@ (midnight :> HM(0, 0))

\* s.lstrip()
LStrip(s) ==
    IF \A i \in DOMAIN s : IsSpace(s[i]) THEN <<>>
    ELSE SubSeq(s, CHOOSE i \in DOMAIN s : ~IsSpace(s[i]) /\ \A j \in 1 .. (i - 1) : IsSpace(s[j]),
                Len(s))

\* s.split(":")
RECURSIVE SplitColon(_)
SplitColon(s) ==
    IF \A i \in DOMAIN s : s[i] # ":" THEN <<s>>
    ELSE LET z == CHOOSE i \in DOMAIN s : s[i] = ":" /\ \A j \in 1 .. (i - 1) : s[j] # ":"
         IN  <<SubSeq(s, 1, z - 1)>> \o SplitColon(SubSeq(s, z + 1, Len(s)))

\* int(s): spaces around, an optional sign, digits with single underscores
\* between them.  [ok, val]
PyInt(s) ==
    LET t == Strip(s)
        signed == t # <<>> /\ t[1] \in {"+", "-"}
        body == IF signed THEN Tail(t) ELSE t
        wellFormed ==
            /\ body # <<>>
            /\ IsDigit(body[1]) /\ IsDigit(body[Len(body)])
            /\ \A i \in DOMAIN body : IsDigit(body[i]) \/ body[i] = "_"
            /\ \A i \in 1 .. (Len(body) - 1) : ~(body[i] = "_" /\ body[i + 1] = "_")
        val == ToInt(SelectSeq(body, IsDigit))
    IN  IF ~wellFormed THEN [ok |-> FALSE, val |-> 0]
        ELSE [ok |-> TRUE, val |-> IF signed /\ t[1] = "-" THEN 0 - val ELSE val]

\* The branch taken once the text holds a colon: hours, minutes = map(int, ...)
ValidatorClock(time_spec) ==
    Bind(SplitColon(time_spec), LAMBDA parts :
        IF Len(parts) # 2 THEN Raised("ValueError")
        ELSE Bind(PyInt(parts[1]), LAMBDA hours :
             Bind(PyInt(parts[2]), LAMBDA minutes :
                IF ~hours.ok \/ ~minutes.ok THEN Raised("ValueError")
                ELSE IF ~(0 <= hours.val /\ hours.val <= 23
                          /\ 0 <= minutes.val /\ minutes.val <= 59)
                THEN Raised("ValueError")
                ELSE Returned(HM(hours.val, minutes.val)))))

\* validate.SOLAR_TIME_REGEX.match(s): one of the six events, then optionally
\* spaces, a sign, spaces, digits and the unit m or h; $ is the end of the text
\* or the line end that closes it.  [ok, event, offset, unit]
ValidatorSolarMatch(s) ==
    LET t == IF s # <<>> /\ s[Len(s)] = "\n" THEN SubSeq(s, 1, Len(s) - 1) ELSE s
        events == {e \in DOMAIN VALIDATOR_SOLAR_FALLBACKS :
                      Len(t) >= Len(e) /\ SubSeq(t, 1, Len(e)) = e}
        no == [ok |-> FALSE, event |-> <<>>, offset |-> <<>>, unit |-> ""]
    IN  IF events = {} THEN no
        ELSE LET event == CHOOSE e \in events : TRUE
                 rest == SubSeq(t, Len(event) + 1, Len(t))
                 sign == LStrip(rest)
                 number == IF sign = <<>> THEN <<>> ELSE LStrip(Tail(sign))
             IN  IF rest = <<>>
                 THEN [ok |-> TRUE, event |-> event, offset |-> <<>>, unit |-> ""]
                 ELSE IF /\ sign # <<>> /\ sign[1] \in {"+", "-"}
                         /\ Len(number) >= 2
                         /\ number[Len(number)] \in {"m", "h"}
                         /\ AllDigits(SubSeq(number, 1, Len(number) - 1))
                 THEN [ok |-> TRUE, event |-> event,
                       offset |-> SubSeq(number, 1, Len(number) - 1),
                       unit |-> number[Len(number)]]
                 ELSE no

\* The solar branch: the event's fallback, the offset added to it.
ValidatorSolar(time_spec) ==
    Bind(ValidatorSolarMatch(Lower(time_spec)), LAMBDA solar_match :
        IF ~solar_match.ok THEN Raised("ValueError")
        ELSE IF solar_match.offset = <<>>
        THEN Returned(VALIDATOR_SOLAR_FALLBACKS[solar_match.event])
        ELSE LET offset == ToInt(solar_match.offset)
                 offset_minutes == IF solar_match.unit = "h" THEN offset * 60 ELSE offset
                 base_minutes == VALIDATOR_SOLAR_FALLBACKS[solar_match.event] \div 60
                 total_minutes == (base_minutes + offset_minutes) % (24 * 60)
             IN  Returned(HM(total_minutes \div 60, total_minutes % 60)))

\* Validator._parse_time_spec(time_spec): [exc, val]
Validator_parse_time_spec(time_spec) ==
    IF Contains(time_spec, <<":">>) THEN ValidatorClock(time_spec)
    ELSE ValidatorSolar(time_spec)

\* ------------------------------------------- the two parsers on one text
\* <event><spaces>(+|-)<spaces><minutes>(m|h): the offsets with a unit, as the
\* validator writes them, with and without spaces around the sign.
UnitTexts ==
    {e \o gap \o <<op>> \o gap \o ToStr(n) \o <<unit>> :
        e \in ACCEPTED_SOLAR_EVENTS \cup {Upper(sunset), Capitalize(dawn)},
        gap \in {<<>>, <<" ">>}, op \in {"+", "-"}, n \in {0, 2, 30, 90},
        unit \in {"m", "h"}}
\* Clock texts at the edges of what int() takes.
SignedClockTexts ==
    { <<"+","8",":","3","0">>, <<"-","0",":","3","0">>, <<"8",":","5">>,
      <<"0","8",":","3","0"," ">>, <<"1","_","0",":","3","0">>,
      <<"0","8",":","-","5">>, <<"s","u","n","r","i","s","e"," ">>,
      <<"s","u","n","r","i","s","e","\n">>, <<"s","u","n","r","i","s","e","+","3","0","s">> }
AgreementTexts == TimeSpecTexts \cup UnitTexts \cup SignedClockTexts

\* A start or end string of a definition, seen by neither parser yet.
InitAgreement ==
    /\ now = Combine(0, 0)
    /\ sched = EmptySchedule
    /\ calc = NewCalc
    /\ log = <<>>
    /\ failures = {}
    /\ seen = <<>>
    /\ ncalls = 0
    /\ \E text \in AgreementTexts : last = [op |-> "text", text |-> text]
    /\ messages = <<>>

\* The pack validator's call Validator._parse_time_spec(text).
ValidatorParseCall ==
    /\ last.op = "text"
    /\ \E v \in {Validator_parse_time_spec(last.text)} :
          last' = [op |-> "validated", text |-> last.text,
                   validator_exc |-> v.exc, validator_val |-> v.val]
    /\ UNCHANGED <<now, sched, calc, log, failures, seen, ncalls, messages>>

\* The schedule loader's call ScheduleManager._parse_time_spec(text).
LoaderParseCall ==
    /\ last.op = "validated"
    /\ \E r \in {parse_time_spec(last.text)} :
          last' = [op |-> "loaded", text |-> last.text,
                   validator_exc |-> last.validator_exc,
                   validator_val |-> last.validator_val,
                   exc |-> r.exc, spec |-> r.spec, tzinfo |-> r.tzinfo]
    /\ UNCHANGED <<now, sched, calc, log, failures, seen, ncalls, messages>>

NextAgreement == ValidatorParseCall \/ LoaderParseCall

SpecAgreement == InitAgreement /\ [][NextAgreement]_vars

\* C30: the validator's parser and the engine's parser accept the same start
\* and end strings, and for a solar spec accepted by both the validator's time
\* is the engine's fallback for the event moved by the engine's signed offset.
C30_ParsersAgree ==
    last.op = "loaded" =>
        /\ (last.validator_exc = "") <=> (last.exc = "")
        /\ (last.validator_exc = "" /\ last.exc = "" /\ last.spec.type = "solar") =>
              last.validator_val =
                 (SOLAR_FALLBACKS[last.spec.base] + 60 * last.spec.offset) % DaySeconds
====
